---- MODULE Spec2Model ----
(***************************************************************************)
(* Model of the scripted-render-pipeline importer: the tile / section /    *)
(* stack data model of importer/render_specs.py, the tiles built by the    *)
(* FASTEM and CLEM ingest adaptors, and the Uploader / Stitcher uploads to *)
(* the render server.                                                      *)
(*                                                                         *)
(* Conventions                                                             *)
(*  - a Python dict is a sequence of entries in insertion order (dicts     *)
(*    iterate in insertion order); a key is written at most once.          *)
(*  - an optional attribute that holds a list or tuple is the empty        *)
(*    sequence while it is None.                                           *)
(*  - geometry is integer valued: the inputs are drawn so that every       *)
(*    division of the code is exact; the running intensity mean is an      *)
(*    exact rational [n, d].                                               *)
(***************************************************************************)
EXTENDS Integers, Sequences, FiniteSets, TLC

\* ------------------------------------------------------------------ bounds
MaxTime == 3
MaxTiles == 3
MaxIdTiles == 11

\* ------------------------------------------------------------------ helpers
\* value of an unset numeric attribute (pixel_size=None); pixel sizes are >= 0
None == 0 - 1

Truthy(v) == v # None /\ v # 0

RECURSIVE Gcd(_, _)
Gcd(a, b) == IF b = 0 THEN a ELSE Gcd(b, a % b)

Abs(a) == IF a < 0 THEN 0 - a ELSE a

\* exact rational n/d, d > 0, in lowest terms
Rat(n, d) ==
    LET g == Gcd(Abs(n), d)
    IN  [n |-> n \div g, d |-> d \div g]

\* Python round(): nearest integer, a tie goes to the even one
Round(r) ==
    LET fl == r.n \div r.d
        rem == r.n - fl * r.d
    IN  IF 2 * rem < r.d THEN fl
        ELSE IF 2 * rem > r.d THEN fl + 1
        ELSE IF fl % 2 = 0 THEN fl ELSE fl + 1

SeqMin(s) == CHOOSE m \in {s[i] : i \in DOMAIN s} : \A i \in DOMAIN s : m <= s[i]
SeqMax(s) == CHOOSE m \in {s[i] : i \in DOMAIN s} : \A i \in DOMAIN s : m >= s[i]
Min2(a, b) == IF a <= b THEN a ELSE b
Max2(a, b) == IF a >= b THEN a ELSE b

\* ------------------------------------------------------------------ transforms
AffineModel(M00, M01, M10, M11, B0, B1) ==
    [M00 |-> M00, M01 |-> M01, M10 |-> M10, M11 |-> M11, B0 |-> B0, B1 |-> B1]

\* AffineModel.tform applied to one point <<x, y>>
Tform(m, p) ==
    <<m.M00 * p[1] + m.M01 * p[2] + m.B0, m.M10 * p[1] + m.M11 * p[2] + m.B1>>

\* for tform in tforms: bbox = tform.tform(bbox), for one point
RECURSIVE ApplyTforms(_, _)
ApplyTforms(tforms, p) ==
    IF tforms = <<>> THEN p
    ELSE ApplyTforms(Tail(tforms), Tform(Head(tforms), p))

Corners(w, h) == <<(<<0, 0>>), (<<0, h>>), (<<w, 0>>), (<<w, h>>)>>

\* ------------------------------------------------------------------ Axis, Tile
Axis(box_min, box_max, position, pixel_size) ==
    LET pixel_position == position \div pixel_size
    IN  [pixel_position |-> pixel_position,
         min_pos |-> pixel_position + box_min,
         max_pos |-> pixel_position + box_max]

TileSpec(layout_pixelsize, width, height, tforms) ==
    [pixelsize |-> layout_pixelsize, width |-> width, height |-> height,
     tforms |-> tforms, z |-> None, tileId |-> <<>>, bbox |-> <<>>,
     minmax |-> <<>>]

Tile(stackname, zvalue, spec, acquisitiontime, axes, min_intensity, max_intensity) ==
    [stackname |-> stackname, zvalue |-> zvalue, spec |-> spec,
     acquisitiontime |-> acquisitiontime, axes |-> axes,
     min_intensity |-> min_intensity, max_intensity |-> max_intensity]

\* image size of every tile, in pixels
TileWidth == 2
TileHeight == 1

\* the intensity percentiles of a tile image (a function of the image; the
\* images of the model differ by acquisition time only)
Percentile(time) == <<time, 10 + 3 * time>>

\* FASTEM_Mipmapper.create_mipmaps with positions = None (grid placement);
\* metadata pixel sizes are kept in nm (the code divides every one by 1000)
FastemTile(zvalue, in) ==
    LET pixels == <<TileWidth, TileHeight>>
        mins == <<Min2(0, pixels[1]), Min2(0, pixels[2])>>
        maxs == <<Max2(0, pixels[1]), Max2(0, pixels[2])>>
        coordinates == <<in.col * pixels[1], in.row * pixels[2]>>
        axes == <<Axis(mins[1], maxs[1], coordinates[1], 1),
                  Axis(mins[2], maxs[2], coordinates[2], 1)>>
        spec == TileSpec(in.px, TileWidth, TileHeight, <<>>)
        pct == Percentile(in.time)
    IN  Tile("raw", zvalue, spec, in.time, axes, pct[1], pct[2])

\* CLEM_Mipmapper.create_mipmap_from_page: in.rot says whether the image
\* element has a Transform (a quarter turn), in.px is PhysicalSizeX, in.ypx
\* PhysicalSizeY, (in.col, in.row) the stage position in units of in.px
ClemTile(zvalue, in) ==
    LET rotation == IF in.rot THEN <<AffineModel(0, 0 - 1, 1, 0, 0, 0)>> ELSE <<>>
        y_corrected == in.ypx \div in.px
        scaling == IF y_corrected # 0
                   THEN <<AffineModel(1, 0, 0, y_corrected, 0, 0)>> ELSE <<>>
        tforms == rotation \o scaling
        um_position == <<in.col * in.px, (in.row * in.px) * (0 - 1)>>
        corners == Corners(TileWidth, TileHeight)
        bbox == <<ApplyTforms(tforms, corners[1]), ApplyTforms(tforms, corners[2]),
                  ApplyTforms(tforms, corners[3]), ApplyTforms(tforms, corners[4])>>
        xs == <<bbox[1][1], bbox[2][1], bbox[3][1], bbox[4][1]>>
        ys == <<bbox[1][2], bbox[2][2], bbox[3][2], bbox[4][2]>>
        axes == <<Axis(SeqMin(xs), SeqMax(xs), um_position[1], in.px),
                  Axis(SeqMin(ys), SeqMax(ys), um_position[2], in.px)>>
        spec == TileSpec(in.px, TileWidth, TileHeight, tforms)
        pct == Percentile(in.time)
    IN  Tile("EM_lomag", zvalue, spec, in.time, axes, pct[1], pct[2])

\* ------------------------------------------------------------------ inputs
Times == 1..MaxTime

\* grid cells (col, row) of the images of one section
Cells == {<<0, 1>>, <<1, 0>>}

\* z values of the sections
ZValues == {0, 1}

\* the images a FASTEM section directory can hold: DateTime tag, pixel_size
\* of the metadata file, column and row of the file name
FastemInputs ==
    {[time |-> t, px |-> p, col |-> c[1], row |-> c[2]] :
        t \in Times, p \in {0, 1, 2}, c \in Cells}

\* the local transforms of a CLEM image: <<has a Transform, PhysicalSizeY>>
ClemTransforms == {<<FALSE, 2>>, <<FALSE, 4>>, <<TRUE, 2>>}

\* the pages a CLEM section directory can hold: AcquisitionDate, PhysicalSizeX
\* and PhysicalSizeY, Transform element, stage position in units of a pixel
ClemInputs ==
    {[time |-> t, px |-> 2, ypx |-> f[2], rot |-> f[1], col |-> c[1], row |-> c[2]] :
        t \in Times, f \in ClemTransforms, c \in Cells}

\* the tiles the create_mipmaps tasks of the two adaptors can return
FastemTiles == {FastemTile(z, in) : z \in ZValues, in \in FastemInputs}
ClemTiles == {ClemTile(z, in) : z \in ZValues, in \in ClemInputs}
Tiles == FastemTiles \cup ClemTiles

\* the tiles the driver hands to the section (stackname, zvalue)
TilesFor(name, zvalue) ==
    {tile \in Tiles : tile.stackname = name /\ tile.zvalue = zvalue}

\* ------------------------------------------------------------------ Section
Section(zvalue, name) ==
    [zvalue |-> zvalue, name |-> name, range |-> <<>>, pixel_size |-> None,
     topleft |-> <<>>, tiles |-> <<>>]

\* keys of tiles_by_acquisitiontime
Keys(sec) == {sec.tiles[i].acquisitiontime : i \in DOMAIN sec.tiles}

\* the mutant of HasSpec: the membership test on the dict is lost
HasSpec_NoCheck(sec, time) == FALSE

\* tile.acquisitiontime in self.tiles_by_acquisitiontime
HasSpec(sec, time) == time \in Keys(sec)

\* self.tiles_by_acquisitiontime[tile.acquisitiontime] = tile: a new key goes
\* to the end of the dict, a key already present keeps its place
DictSet(tiles, tile) ==
    IF \E i \in DOMAIN tiles : tiles[i].acquisitiontime = tile.acquisitiontime
    THEN [i \in DOMAIN tiles |->
            IF tiles[i].acquisitiontime = tile.acquisitiontime THEN tile ELSE tiles[i]]
    ELSE Append(tiles, tile)

\* self.pixel_size and pixel_size != self.pixel_size
WrongPixelSize(sec, pixel_size) ==
    Truthy(sec.pixel_size) /\ pixel_size # sec.pixel_size

\* the mutant of NewTopleft: the corner of the first tile is never updated
NewTopleft_FirstOnly(topleft, axes) ==
    IF topleft = <<>> THEN <<axes[1].min_pos, axes[2].min_pos>> ELSE topleft

\* the running top left corner after one more tile
NewTopleft(topleft, axes) ==
    IF topleft = <<>> THEN <<axes[1].min_pos, axes[2].min_pos>>
    ELSE <<Min2(topleft[1], axes[1].min_pos), Min2(topleft[2], axes[2].min_pos)>>

\* the running mean of the intensity range; amount counts the new tile
WeightedMean(current, add, amount) ==
    Rat(current.n * (amount - 1) + add * current.d, current.d * amount)

NewRange(range, intensity_range, amount) ==
    IF range = <<>>
    THEN <<Rat(intensity_range[1], 1), Rat(intensity_range[2], 1)>>
    ELSE <<WeightedMean(range[1], intensity_range[1], amount),
           WeightedMean(range[2], intensity_range[2], amount)>>

\* the mutant of add_tile: the pixel size is taken over and the z value
\* written before the checks
add_tile_Early(sec, tile) ==
    LET held == [tile EXCEPT !.spec.z = sec.zvalue]
        early == [sec EXCEPT !.pixel_size = tile.spec.pixelsize]
    IN  IF HasSpec(sec, tile.acquisitiontime)
        THEN [err |-> "ValueError: already has a spec", section |-> early,
              tile |-> held]
        ELSE IF WrongPixelSize(sec, tile.spec.pixelsize)
        THEN [err |-> "ValueError: wrong pixel_size", section |-> early,
              tile |-> held]
        ELSE LET tiles == DictSet(sec.tiles, held)
             IN  [err |-> "",
                  section |->
                    [sec EXCEPT !.pixel_size = tile.spec.pixelsize,
                                !.topleft = NewTopleft(sec.topleft, tile.axes),
                                !.tiles = tiles,
                                !.range = NewRange(sec.range,
                                                   <<tile.min_intensity, tile.max_intensity>>,
                                                   Len(tiles))],
                  tile |-> held]

\* Section.add_tile: the error raised ("" when none), the section after and
\* the tile after
add_tile(sec, tile) ==
    IF HasSpec(sec, tile.acquisitiontime)
    THEN [err |-> "ValueError: already has a spec", section |-> sec, tile |-> tile]
    ELSE IF WrongPixelSize(sec, tile.spec.pixelsize)
    THEN [err |-> "ValueError: wrong pixel_size", section |-> sec, tile |-> tile]
    ELSE LET held == [tile EXCEPT !.spec.z = sec.zvalue]
             tiles == DictSet(sec.tiles, held)
         IN  [err |-> "",
              section |->
                [sec EXCEPT !.pixel_size = tile.spec.pixelsize,
                            !.topleft = NewTopleft(sec.topleft, tile.axes),
                            !.tiles = tiles,
                            !.range = NewRange(sec.range,
                                               <<tile.min_intensity, tile.max_intensity>>,
                                               Len(tiles))],
              tile |-> held]

\* str(i) as its decimal digits, and str.zfill
RECURSIVE Str(_)
Str(i) == IF i < 10 THEN <<i>> ELSE Str(i \div 10) \o <<i % 10>>

RECURSIVE Zfill(_, _)
Zfill(s, width) == IF Len(s) >= width THEN s ELSE Zfill(<<0>> \o s, width)

\* sorted(keys), ascending
RECURSIVE Sorted(_)
Sorted(keys) ==
    IF keys = {} THEN <<>>
    ELSE LET m == CHOOSE k \in keys : \A o \in keys : k <= o
         IN  <<m>> \o Sorted(keys \ {m})

Reversed(s) == [i \in 1..Len(s) |-> s[Len(s) + 1 - i]]

\* position of a key in a sequence of distinct keys
IndexOf(s, k) == CHOOSE i \in DOMAIN s : s[i] = k

\* f"{sequential_id}_{self.name}_{self.zvalue}"
TileId(sequential_id, name, zvalue) ==
    [seq |-> sequential_id, name |-> name, z |-> zvalue]

\* the mutant of IdOrder: the sorted keys are not reversed
IdOrder_Ascending(keys) == Sorted(keys)

\* the order in which set_tileids numbers the keys
IdOrder(keys) == Reversed(Sorted(keys))

\* Section.set_tileids
set_tileids(sec) ==
    LET width == Len(Str(Len(sec.tiles)))
        gen == IdOrder(Keys(sec))
        id(time) == TileId(Zfill(Str(IndexOf(gen, time) - 1), width),
                           sec.name, sec.zvalue)
    IN  [sec EXCEPT !.tiles =
            [i \in DOMAIN sec.tiles |->
                [sec.tiles[i] EXCEPT !.spec.tileId = id(sec.tiles[i].acquisitiontime)]]]

\* Section.set_minmax, for a section with a range
set_minmax(sec) ==
    LET minmax == <<Round(sec.range[1]), Round(sec.range[2])>>
    IN  [sec EXCEPT !.tiles =
            [i \in DOMAIN sec.tiles |-> [sec.tiles[i] EXCEPT !.spec.minmax = minmax]]]

\* the transform list calculate_tform leaves on the spec
SealedTforms(tile, origin_pos) ==
    <<AffineModel(1, 0, 0, 1, origin_pos[1], origin_pos[2])>>

\* Tile.calculate_tform
calculate_tform(tile, min_position) ==
    LET min_pos == <<tile.axes[1].min_pos - min_position[1],
                     tile.axes[2].min_pos - min_position[2]>>
        max_pos == <<tile.axes[1].max_pos - min_position[1],
                     tile.axes[2].max_pos - min_position[2]>>
        origin_pos == <<tile.axes[1].pixel_position - min_position[1],
                        tile.axes[2].pixel_position - min_position[2]>>
    IN  [tile EXCEPT !.spec.bbox = <<min_pos[1], min_pos[2], max_pos[1], max_pos[2]>>,
                     !.spec.tforms = SealedTforms(tile, origin_pos)]

\* Section.set_transforms
set_transforms(sec) ==
    [sec EXCEPT !.tiles =
        [i \in DOMAIN sec.tiles |-> calculate_tform(sec.tiles[i], sec.topleft)]]

\* the mutant of get_specs: the specs come out last added first
get_specs_Reversed(sec) == Reversed([i \in DOMAIN sec.tiles |-> sec.tiles[i].spec])

\* Section.get_specs: the specs in the order of the dict
get_specs(sec) == [i \in DOMAIN sec.tiles |-> sec.tiles[i].spec]

\* ------------------------------------------------------------------ Stack
Stack(name) == [name |-> name, pixel_size |-> None, tilespecs |-> <<>>]

\* Stack.add_section: the error raised, the stack and the section after
add_section(stk, sec) ==
    IF Truthy(stk.pixel_size) /\ sec.pixel_size # stk.pixel_size
    THEN [err |-> "ValueError: section has wrong pixel_size",
          stack |-> stk, section |-> sec]
    ELSE LET sized == [stk EXCEPT !.pixel_size = sec.pixel_size]
             ids == set_tileids(sec)
         IN  IF sec.range = <<>>
             THEN [err |-> "TypeError: range is None", stack |-> sized, section |-> ids]
             ELSE LET done == set_transforms(set_minmax(ids))
                  IN  [err |-> "",
                       stack |-> [sized EXCEPT !.tilespecs = @ \o get_specs(done)],
                       section |-> done]

\* ------------------------------------------------------------------ state
VARIABLES
    section,    \* the Section being filled
    stack,      \* the Stack it is sealed into
    err,        \* the exception of the last call, "" when it returned
    rejected,   \* the tile of the add_tile call that raised, else NoTile
    phase,      \* "open" while tiles are added, "raised" when add_tile
                \* raised, "sealed" after add_section, "failed" when it raised
    srv,        \* the stacks of the render project, by name
    colls,      \* the pointmatch collections of the render owner, by name
    run,        \* the upload_to_render call in progress, or the last one
    log,        \* the requests of this call that change the server, in order
    tasks,      \* the futures of create_all_mipmaps, in the order submitted
    futures,    \* the set futures: the tasks whose result is not collected
    drv,        \* the create_all_mipmaps call: position, sections, stacks
    tilebounds, \* the tile bounds of one z-level, as the server lists them
    matched,    \* what get_match_tiles made of them, NoResult before the call
    mtasks,     \* the futures of get_all_matches with their matchers, as submitted
    lock,       \* image_limit: the match task that holds it, 0 when free
    st,         \* the Stitcher.run call: position, matches, connections, output
    project,    \* the section directories of the post-corrector, by index
    calls,      \* what post-correction has done with each section
    pdrv,       \* the post_correct_all_sections call: position, tasks, result
    exporter,   \* the export_stacks call: position, parameters, boxes
    Session,    \* requests.Session, the process-wide constructor of http sessions
    mstacks,    \* the stacks of the render server that montage works on
    mtg         \* the montage call: position, arguments, result

secvars == <<section, stack, err, rejected, phase>>
upvars == <<srv, colls, run, log>>
drvvars == <<tasks, futures, drv>>
gmtvars == <<tilebounds, matched>>
stvars == <<mtasks, lock, st>>
postvars == <<project, calls, pdrv>>
expvars == <<exporter>>
monvars == <<Session, mstacks, mtg>>
vars == <<section, stack, err, rejected, phase, srv, colls, run, log,
          tasks, futures, drv,
          tilebounds, matched,
          mtasks, lock, st,
          project, calls, pdrv,
          exporter,
          Session, mstacks, mtg>>

\* the variables an action of one part leaves alone
notsec == <<upvars, drvvars, gmtvars, stvars, postvars, expvars, monvars>>
notup == <<secvars, drvvars, gmtvars, stvars, postvars, expvars, monvars>>
notdrv == <<secvars, upvars, gmtvars, stvars, postvars, expvars, monvars>>
notgmt == <<secvars, upvars, drvvars, stvars, postvars, expvars, monvars>>
notst == <<secvars, upvars, drvvars, gmtvars, postvars, expvars, monvars>>
notpost == <<secvars, upvars, drvvars, gmtvars, stvars, expvars, monvars>>
notexp == <<secvars, upvars, drvvars, gmtvars, stvars, postvars, monvars>>
notmon == <<secvars, upvars, drvvars, gmtvars, stvars, postvars, expvars>>

NoTile == <<>>

\* a stack that already holds the section z = 0 of one tile of pixel size 2
EarlierStack(name) ==
    LET first == CHOOSE tile \in TilesFor(name, 0) :
                    tile.acquisitiontime = 1 /\ tile.spec.pixelsize = 2
        sec == add_tile(Section(0, name), first).section
    IN  add_section(Stack(name), sec).stack

\* ------------------------------------------------------------------ server
\* The render server is not part of the repository.  A stack of the project
\* is [state, specs]: state "ABSENT" while no stack of the name exists, else
\* "LOADING" or "COMPLETE"; specs is the tileIdToSpecMap as a set of
\* [tileId, run], run being the upload that sent the tile-spec.  A request
\* ends "ok", with a "RenderError" (the server refused it) or with a
\* "ConnectionError" (the HTTP exchange failed); only "ok" changes the
\* server.  Where the repository does not decide what the server answers,
\* every answer is possible.
Absent == [state |-> "ABSENT", specs |-> {}]

Refused(server) == [res |-> "RenderError", srv |-> server]
Broken(server) == [res |-> "ConnectionError", srv |-> server]
Failures(server) == {Refused(server), Broken(server)}

\* names of the stacks the uploads are about
StackNames == {"raw", "corrected", "raw_matching"}

\* the mutant of ExistingStacks: stacks still LOADING are not listed
ExistingStacks_CompleteOnly(server) ==
    {name \in StackNames : server[name].state = "COMPLETE"}

\* renderapi.render.get_stacks_by_owner_project: the names of all stacks
ExistingStacks(server) == {name \in StackNames : server[name].state # "ABSENT"}

\* renderapi.stack.delete_stack: for a name that does not exist the server
\* may refuse or answer that nothing is left
DeleteStack(server, name) ==
    {[res |-> "ok", srv |-> [server EXCEPT ![name] = Absent]]} \cup Failures(server)

\* renderapi.stack.create_stack: a new stack is LOADING and empty; for a name
\* that exists the server may refuse, or keep the tile-specs under a new
\* version of the stack, LOADING or in the state it had
CreateStack(server, name) ==
    IF server[name].state = "ABSENT"
    THEN {[res |-> "ok", srv |-> [server EXCEPT ![name] = [state |-> "LOADING", specs |-> {}]]]}
         \cup Failures(server)
    ELSE {[res |-> "ok", srv |-> [server EXCEPT ![name].state = "LOADING"]],
          [res |-> "ok", srv |-> server]} \cup Failures(server)

\* tileIdToSpecMap after more tile-specs: one spec per tileId, the new one wins
Upsert(specs, tilespecs) ==
    {old \in specs : \A new \in tilespecs : new.tileId # old.tileId} \cup tilespecs

\* import_tilespecs: one resolved-tiles request; a stack that is not LOADING
\* may refuse it
ImportTilespecs(server, name, tilespecs) ==
    IF server[name].state = "ABSENT" THEN Failures(server)
    ELSE {[res |-> "ok",
           srv |-> [server EXCEPT ![name].specs = Upsert(@, tilespecs)]]}
         \cup Failures(server)

\* renderapi.stack.set_stack_state(name, "COMPLETE")
SetStackState(server, name) ==
    IF server[name].state = "ABSENT" THEN Failures(server)
    ELSE {[res |-> "ok", srv |-> [server EXCEPT ![name].state = "COMPLETE"]]}
         \cup Failures(server)

\* a pointmatch collection: the runs whose matches it holds, none when absent
NoCollection == [exists |-> FALSE, matches |-> {}]

\* renderapi.pointmatch.delete_collection
DeleteCollection(collections, name) ==
    IF collections[name].exists
    THEN {[res |-> "ok", colls |-> [collections EXCEPT ![name] = NoCollection]],
          [res |-> "RenderError", colls |-> collections],
          [res |-> "ConnectionError", colls |-> collections]}
    ELSE {[res |-> "RenderError", colls |-> collections],
          [res |-> "ConnectionError", colls |-> collections]}

\* renderapi.pointmatch.import_matches: the matches are added to the collection
ImportMatches(collections, name, matches) ==
    {[res |-> "ok",
      colls |-> [collections EXCEPT ![name] =
                    [exists |-> TRUE, matches |-> @.matches \cup matches]]],
     [res |-> "RenderError", colls |-> collections],
     [res |-> "ConnectionError", colls |-> collections]}

\* ------------------------------------------------------------------ uploads
\* the tile-specs upload number n sends for a stack of count tiles
RunSpecs(n, count) == {[tileId |-> i, run |-> n] : i \in 1..count}

\* the Stack objects upload number n is called with
UploadStack(name, n, count) ==
    [name |-> name, pixel_size |-> 2, tilespecs |-> RunSpecs(n, count)]

\* the lists of stacks create_all_mipmaps returns: one stack per name
StackLists(n, count) ==
    {<<UploadStack(a, n, count)>> : a \in {"raw", "corrected"}}
    \cup {<<UploadStack(a[1], n, count), UploadStack(a[2], n, count)>> :
            a \in {<<"raw", "corrected">>, <<"corrected", "raw">>}}

\* the name of the pointmatch collection of the stitcher
MatchesName == "project_raw_matches"

Terminal == {"idle", "returned", "raised", "crashed"}

\* what the call before this one left: the stack it stopped at after the
\* create request and before the set_stack_state request ("" when it did
\* not stop there) and the names of its stacks
NoStop == [name |-> "", names |-> {}]

IdleRun ==
    [n |-> 0, kind |-> "", clobber |-> FALSE, stacks |-> <<>>, existing |-> {},
     idx |-> 0, pc |-> "idle", at |-> "", exc |-> "", prev |-> NoStop]

\* get_match_tiles has not been called
NoResult == [err |-> "not called"]

NoMatchTiles ==
    /\ tilebounds = <<>>
    /\ matched = NoResult

\* Stitcher.run before get_all_matches
IdleStitcher ==
    [pc |-> "idle", exc |-> "", pairs |-> <<>>, collected |-> {},
     z_all_matches |-> <<>>, z_connections |-> <<>>, unstarted |-> {},
     good_tilespecs |-> {}, matches_to_send |-> <<>>]

NoStitch ==
    /\ mtasks = <<>>
    /\ lock = 0
    /\ st = IdleStitcher

\* post_correct_all_sections has not been called
IdlePostDriver ==
    [pc |-> "idle", project_paths |-> "", root |-> <<>>, rootcall |-> <<>>,
     sampled |-> <<>>, tasks |-> <<>>, failed_sections |-> <<>>, exc |-> ""]

\* post-correction has not been started
NoPost ==
    /\ project = <<>>
    /\ calls = <<>>
    /\ pdrv = IdlePostDriver

\* export_stacks has not been called
IdleExporter ==
    [pc |-> "idle", stacks |-> <<>>, export_data |-> <<>>, idx |-> 0,
     rendered |-> <<>>, exc |-> ""]

NoExport == exporter = IdleExporter

\* requests.Session as the library defines it; a session_wrapper is the
\* sequence of the auths it and the constructors below it set, outermost first
LibrarySession == <<>>

\* the stack montage reads and the stack it writes
StitchedStack == "raw_matching_stitched"
MontageStacks == {"raw_matching", StitchedStack}

\* montage has not been called
IdleMontage ==
    [n |-> 0, pc |-> "idle", stack |-> "", clobber |-> FALSE, auth |-> "",
     render |-> <<>>, z_values |-> <<>>, old_func |-> <<>>, before |-> <<>>,
     output_stack |-> "", at |-> "", exc |-> ""]

NoMontage ==
    /\ Session = LibrarySession
    /\ mstacks = [name \in MontageStacks |-> Absent]
    /\ mtg = IdleMontage

\* no Section is being filled
NoSections ==
    /\ section = Section(0, "raw")
    /\ stack = Stack("raw")
    /\ err = ""
    /\ rejected = NoTile
    /\ phase = "open"

\* create_all_mipmaps before its first statement
IdleDriver ==
    [pc |-> "idle", exc |-> "", all_sections |-> <<>>, cancelled |-> {},
     shutdown |-> FALSE, sealed |-> 0, all_stacks |-> <<>>]

NoDriver ==
    /\ tasks = <<>>
    /\ futures = {}
    /\ drv = IdleDriver

NoUpload ==
    /\ srv = [name \in StackNames |-> Absent]
    /\ colls = [name \in {MatchesName} |-> NoCollection]
    /\ run = IdleRun
    /\ log = <<>>

Init ==
    /\ NoMontage
    /\ NoExport
    /\ NoPost
    /\ NoStitch
    /\ NoMatchTiles
    /\ NoUpload
    /\ NoDriver
    /\ \E name \in {"raw", "EM_lomag"} :
          \/ /\ stack = Stack(name)
             /\ section = Section(0, name)
          \/ /\ stack = EarlierStack(name)
             /\ section = Section(1, name)
    /\ err = ""
    /\ rejected = NoTile
    /\ phase = "open"

\* one completed task hands its tile to section.add_tile
AddTile(tile) ==
    LET r == add_tile(section, tile)
    IN  /\ phase = "open"
        /\ r.err # "" \/ Len(section.tiles) < MaxTiles
        /\ section' = r.section
        /\ err' = r.err
        /\ rejected' = IF r.err = "" THEN NoTile ELSE r.tile
        /\ phase' = IF r.err = "" THEN "open" ELSE "raised"
        /\ UNCHANGED <<stack, notsec>>

\* the caller of add_tile handles the ValueError and goes on with the section
Resume ==
    /\ phase = "raised"
    /\ phase' = "open"
    /\ err' = ""
    /\ rejected' = NoTile
    /\ UNCHANGED <<section, stack, notsec>>

\* stack.add_section(section)
Seal ==
    LET r == add_section(stack, section)
    IN  /\ phase = "open"
        /\ section' = r.section
        /\ stack' = r.stack
        /\ err' = r.err
        /\ phase' = IF r.err = "" THEN "sealed" ELSE "failed"
        /\ UNCHANGED <<rejected, notsec>>

Next ==
    \/ \E tile \in TilesFor(section.name, section.zvalue) : AddTile(tile)
    \/ Resume
    \/ Seal

Spec == Init /\ [][Next]_vars

\* ------------------------------------------------------------------ tile ids
\* Sections of up to MaxIdTiles FASTEM tiles, enough for tile ids of two
\* digits.  The tiles of one section complete in an order that extends the
\* range of times held so far at either end.
IdTiles ==
    {FastemTile(0, [time |-> t, px |-> 2, col |-> 0, row |-> 1]) : t \in 1..MaxIdTiles}

InitIds ==
    /\ NoMontage
    /\ NoExport
    /\ NoPost
    /\ NoStitch
    /\ NoMatchTiles
    /\ NoUpload
    /\ NoDriver
    /\ stack = Stack("raw")
    /\ section = Section(0, "raw")
    /\ err = ""
    /\ rejected = NoTile
    /\ phase = "open"

AddIdTile(tile) ==
    LET r == add_tile(section, tile)
        held == Sorted(Keys(section))
    IN  /\ phase = "open"
        /\ held # <<>> =>
              \/ tile.acquisitiontime = held[1] - 1
              \/ tile.acquisitiontime = held[Len(held)] + 1
        /\ section' = r.section
        /\ err' = r.err
        /\ UNCHANGED <<stack, rejected, phase, notsec>>

NextIds ==
    \/ \E tile \in IdTiles : AddIdTile(tile)
    \/ Seal

SpecIds == InitIds /\ [][NextIds]_vars

\* ------------------------------------------------------------------ Uploader
MaxRuns == 2
MaxSpecs == 2

Names(stacks) == {stacks[i].name : i \in DOMAIN stacks}

\* the stack of the loop iteration the call is in
Current(r) == r.stacks[r.idx]

Raised(r, exc) == [r EXCEPT !.at = r.pc, !.pc = "raised", !.exc = exc]

Request(op, name, res) == [op |-> op, name |-> name, res |-> res]

\* the mutant of Call: an exception of the request is ignored
Call_Ignored(r, res, pc) == [r EXCEPT !.pc = pc]

\* a request statement: its exception ends upload_to_render, else the next
\* statement runs
Call(r, res, pc) == IF res = "ok" THEN [r EXCEPT !.pc = pc] ELSE Raised(r, res)

\* the mutant of EnterStack for an existing name: no RuntimeError
EnterStack_NoRaise(r, idx) ==
    LET at == [r EXCEPT !.idx = idx]
    IN  IF idx > Len(r.stacks) THEN [at EXCEPT !.pc = "returned"]
        ELSE IF r.stacks[idx].name \in r.existing /\ r.clobber
             THEN [at EXCEPT !.pc = "delete"]
             ELSE [at EXCEPT !.pc = "create"]

\* the mutant of EnterStack for an existing name: no delete_stack
EnterStack_NoDelete(r, idx) ==
    LET at == [r EXCEPT !.idx = idx]
    IN  IF idx > Len(r.stacks) THEN [at EXCEPT !.pc = "returned"]
        ELSE IF r.stacks[idx].name \in r.existing /\ ~r.clobber
             THEN Raised([at EXCEPT !.pc = "check"], "RuntimeError: already exists")
             ELSE [at EXCEPT !.pc = "create"]

\* the head of the loop over the stacks: the end of the list returns, a name
\* of existing_stacks is deleted under clobber and raises without
EnterStack(r, idx) ==
    LET at == [r EXCEPT !.idx = idx]
    IN  IF idx > Len(r.stacks) THEN [at EXCEPT !.pc = "returned"]
        ELSE IF r.stacks[idx].name \in r.existing
             THEN IF r.clobber
                  THEN [at EXCEPT !.pc = "delete"]
                  ELSE Raised([at EXCEPT !.pc = "check"], "RuntimeError: already exists")
             ELSE [at EXCEPT !.pc = "create"]

\* what a call leaves for the next one
Stop(r) ==
    IF /\ r.kind = "uploader"
       /\ \/ r.pc = "crashed" /\ r.at \in {"import", "set_state"}
          \/ r.pc = "raised" /\ r.at = "import"
    THEN [name |-> Current(r).name, names |-> Names(r.stacks)]
    ELSE [name |-> "", names |-> Names(r.stacks)]

\* Uploader.upload_to_render(stacks) is called
StartUpload(clobber, stacks) ==
    /\ run.pc \in Terminal
    /\ run.n < MaxRuns
    /\ run' = [n |-> run.n + 1, kind |-> "uploader", clobber |-> clobber,
               stacks |-> stacks, existing |-> {}, idx |-> 0, pc |-> "list",
               at |-> "", exc |-> "", prev |-> Stop(run)]
    /\ log' = <<>>
    /\ UNCHANGED <<srv, colls, notup>>

\* existing_stacks = get_stacks_by_owner_project(), then the first stack
ListStacks ==
    /\ run.kind = "uploader" /\ run.pc = "list"
    /\ \E res \in {"ok", "RenderError", "ConnectionError"} :
        run' = IF res = "ok"
               THEN EnterStack([run EXCEPT !.existing = ExistingStacks(srv)], 1)
               ELSE Raised(run, res)
    /\ UNCHANGED <<srv, colls, log, notup>>

\* renderapi.stack.delete_stack(stack.name)
Delete ==
    /\ run.kind = "uploader" /\ run.pc = "delete"
    /\ \E o \in DeleteStack(srv, Current(run).name) :
        /\ srv' = o.srv
        /\ log' = Append(log, Request("delete", Current(run).name, o.res))
        /\ run' = Call(run, o.res, "create")
    /\ UNCHANGED <<colls, notup>>

\* renderapi.stack.create_stack(stack.name)
Create ==
    /\ run.kind = "uploader" /\ run.pc = "create"
    /\ \E o \in CreateStack(srv, Current(run).name) :
        /\ srv' = o.srv
        /\ log' = Append(log, Request("create", Current(run).name, o.res))
        /\ run' = Call(run, o.res, "import")
    /\ UNCHANGED <<colls, notup>>

\* import_tilespecs(stack.name, stack.tilespecs)
Import ==
    /\ run.kind = "uploader" /\ run.pc = "import"
    /\ \E o \in ImportTilespecs(srv, Current(run).name, Current(run).tilespecs) :
        /\ srv' = o.srv
        /\ log' = Append(log, Request("import", Current(run).name, o.res))
        /\ run' = Call(run, o.res, "set_state")
    /\ UNCHANGED <<colls, notup>>

\* renderapi.stack.set_stack_state(stack.name, "COMPLETE"), then the next stack
SetState ==
    /\ run.kind = "uploader" /\ run.pc = "set_state"
    /\ \E o \in SetStackState(srv, Current(run).name) :
        /\ srv' = o.srv
        /\ log' = Append(log, Request("set_state", Current(run).name, o.res))
        /\ run' = IF o.res = "ok" THEN EnterStack(run, run.idx + 1)
                  ELSE Raised(run, o.res)
    /\ UNCHANGED <<colls, notup>>

\* the process is stopped between two statements
Crash ==
    /\ run.pc \notin Terminal
    /\ run' = [run EXCEPT !.at = run.pc, !.pc = "crashed"]
    /\ UNCHANGED <<srv, colls, log, notup>>

\* ------------------------------------------------------------------ Stitcher
\* the stack the stitcher reads and the stack it uploads
StitchStack == "raw"
MatchingStack == "raw_matching"

\* Stitcher.upload_to_render(tilespecs, matches) is called
StartStitch(clobber, count) ==
    /\ run.pc \in Terminal
    /\ run.n < MaxRuns
    /\ run' = [n |-> run.n + 1, kind |-> "stitcher", clobber |-> clobber,
               stacks |-> <<UploadStack(MatchingStack, run.n + 1, count)>>,
               existing |-> {}, idx |-> 1, pc |-> "metadata",
               at |-> "", exc |-> "", prev |-> Stop(run)]
    /\ log' = <<>>
    /\ UNCHANGED <<srv, colls, notup>>

\* metadata = get_stack_metadata(self.stack), then the clobber test
Metadata ==
    /\ run.kind = "stitcher" /\ run.pc = "metadata"
    /\ \E res \in IF srv[StitchStack].state = "ABSENT"
                  THEN {"RenderError", "ConnectionError"}
                  ELSE {"ok", "RenderError", "ConnectionError"} :
        run' = Call(run, res, IF run.clobber THEN "s_delete" ELSE "s_create")
    /\ UNCHANGED <<srv, colls, log, notup>>

\* delete_stack(self.matching_stack) with RenderError passed over
StitchDelete ==
    /\ run.kind = "stitcher" /\ run.pc = "s_delete"
    /\ \E o \in DeleteStack(srv, MatchingStack) :
        /\ srv' = o.srv
        /\ log' = Append(log, Request("delete", MatchingStack, o.res))
        /\ run' = IF o.res = "RenderError" THEN [run EXCEPT !.pc = "s_create"]
                  ELSE Call(run, o.res, "s_create")
    /\ UNCHANGED <<colls, notup>>

\* create_stack(self.matching_stack)
StitchCreate ==
    /\ run.kind = "stitcher" /\ run.pc = "s_create"
    /\ \E o \in CreateStack(srv, MatchingStack) :
        /\ srv' = o.srv
        /\ log' = Append(log, Request("create", MatchingStack, o.res))
        /\ run' = Call(run, o.res, "s_import")
    /\ UNCHANGED <<colls, notup>>

\* uploader.import_tilespecs(self.matching_stack, tilespecs)
StitchImport ==
    /\ run.kind = "stitcher" /\ run.pc = "s_import"
    /\ \E o \in ImportTilespecs(srv, MatchingStack, Current(run).tilespecs) :
        /\ srv' = o.srv
        /\ log' = Append(log, Request("import", MatchingStack, o.res))
        /\ run' = Call(run, o.res, "s_set_state")
    /\ UNCHANGED <<colls, notup>>

\* set_stack_state(self.matching_stack, "COMPLETE"), then the clobber test
StitchSetState ==
    /\ run.kind = "stitcher" /\ run.pc = "s_set_state"
    /\ \E o \in SetStackState(srv, MatchingStack) :
        /\ srv' = o.srv
        /\ log' = Append(log, Request("set_state", MatchingStack, o.res))
        /\ run' = Call(run, o.res, IF run.clobber THEN "m_delete" ELSE "m_import")
    /\ UNCHANGED <<colls, notup>>

\* delete_collection(self.matches_name) with RenderError logged
MatchesDelete ==
    /\ run.kind = "stitcher" /\ run.pc = "m_delete"
    /\ \E o \in DeleteCollection(colls, MatchesName) :
        /\ colls' = o.colls
        /\ log' = Append(log, Request("delete_collection", MatchesName, o.res))
        /\ run' = IF o.res = "RenderError" THEN [run EXCEPT !.pc = "m_import"]
                  ELSE Call(run, o.res, "m_import")
    /\ UNCHANGED <<srv, notup>>

\* import_matches(self.matches_name, matches), the last statement
MatchesImport ==
    /\ run.kind = "stitcher" /\ run.pc = "m_import"
    /\ \E o \in ImportMatches(colls, MatchesName, {run.n}) :
        /\ colls' = o.colls
        /\ log' = Append(log, Request("import_matches", MatchesName, o.res))
        /\ run' = Call(run, o.res, "returned")
    /\ UNCHANGED <<srv, notup>>

\* ------------------------------------------------------------------ upload runs
\* the project is empty, or holds the raw stack of an earlier import
InitUpload ==
    /\ NoMontage
    /\ NoExport
    /\ NoPost
    /\ NoStitch
    /\ NoMatchTiles
    /\ NoSections
    /\ srv \in {[name \in StackNames |-> Absent],
                [name \in StackNames |->
                    IF name = StitchStack
                    THEN [state |-> "COMPLETE", specs |-> RunSpecs(0, MaxSpecs)]
                    ELSE Absent]}
    /\ colls = [name \in {MatchesName} |-> NoCollection]
    /\ run = IdleRun
    /\ log = <<>>
    /\ NoDriver

NextUpload ==
    \/ \E clobber \in BOOLEAN, count \in 1..MaxSpecs :
        \E stacks \in StackLists(run.n + 1, count) : StartUpload(clobber, stacks)
    \/ ListStacks
    \/ Delete
    \/ Create
    \/ Import
    \/ SetState
    \/ \E clobber \in BOOLEAN, count \in 1..MaxSpecs : StartStitch(clobber, count)
    \/ Metadata
    \/ StitchDelete
    \/ StitchCreate
    \/ StitchImport
    \/ StitchSetState
    \/ MatchesDelete
    \/ MatchesImport
    \/ Crash

SpecUpload == InitUpload /\ [][NextUpload]_vars

\* ------------------------------------------------------------------ driver
MaxTasks == 3
Parallel == 2

\* the tile the t-th create_mipmaps task returns for an image of the stack
\* name at zvalue; images of two tasks can carry the same time tag
TaskTile(t, name, zvalue) ==
    LET time == ((t - 1) % 2) + 1
    IN  CHOOSE tile \in TilesFor(name, zvalue) :
            /\ tile.acquisitiontime = time
            /\ tile.spec.pixelsize = 2
            /\ tile.axes[1].pixel_position = 0
            /\ \A i \in DOMAIN tile.spec.tforms :
                    tile.spec.tforms[i] = AffineModel(1, 0, 0, 1, 0, 0)

TaskTiles ==
    [t \in 1..(MaxTasks + 1) |->
        [name \in {"raw", "EM_lomag"} |->
            [zvalue \in ZValues |-> TaskTile(t, name, zvalue)]]]

InState(state) == {t \in DOMAIN tasks : tasks[t].state = state}

\* the mutant of NameIndex: the entry of a name is never found
NameIndex_Never(all_sections, name) == 0

\* position of the entry of name in the dict all_sections, 0 when absent
NameIndex(all_sections, name) ==
    IF \E i \in DOMAIN all_sections : all_sections[i].name = name
    THEN CHOOSE i \in DOMAIN all_sections : all_sections[i].name = name
    ELSE 0

\* position of the section zvalue in the dict of one stack name, 0 when absent
ZIndex(sections, zvalue) ==
    IF \E i \in DOMAIN sections : sections[i].zvalue = zvalue
    THEN CHOOSE i \in DOMAIN sections : sections[i].zvalue = zvalue
    ELSE 0

\* the body of the loop over the tiles of one result: setdefault of the
\* stack name, the Section of the zvalue, section.add_tile(tile)
CollectTile(all_sections, tile) ==
    LET i == NameIndex(all_sections, tile.stackname)
        named == IF i = 0
                 THEN Append(all_sections, [name |-> tile.stackname, sections |-> <<>>])
                 ELSE all_sections
        n == IF i = 0 THEN Len(named) ELSE i
        j == ZIndex(named[n].sections, tile.zvalue)
        made == IF j = 0
                THEN [named EXCEPT ![n].sections =
                        Append(@, Section(tile.zvalue, tile.stackname))]
                ELSE named
        z == IF j = 0 THEN Len(made[n].sections) ELSE j
        r == add_tile(made[n].sections[z], tile)
    IN  [err |-> r.err,
         all_sections |-> [made EXCEPT ![n].sections[z] = r.section]]

RECURSIVE CollectTiles(_, _)
CollectTiles(all_sections, tiles) ==
    IF tiles = <<>> THEN [err |-> "", all_sections |-> all_sections]
    ELSE LET r == CollectTile(all_sections, Head(tiles))
         IN  IF r.err # "" THEN r ELSE CollectTiles(r.all_sections, Tail(tiles))

\* the loop over sections.values() of one stack name: stack.add_section
RECURSIVE AddSections(_, _, _)
AddSections(stk, sections, sealed) ==
    IF sections = <<>> THEN [err |-> "", stack |-> stk, sealed |-> sealed]
    ELSE LET r == add_section(stk, Head(sections))
         IN  IF r.err # "" THEN [err |-> r.err, stack |-> r.stack, sealed |-> sealed + 1]
             ELSE AddSections(r.stack, Tail(sections), sealed + 1)

\* the loop over all_sections.items(): one Stack per name
RECURSIVE BuildStacks(_, _, _)
BuildStacks(all_sections, all_stacks, sealed) ==
    IF all_sections = <<>>
    THEN [err |-> "", all_stacks |-> all_stacks, sealed |-> sealed]
    ELSE LET r == AddSections(Stack(Head(all_sections).name),
                              Head(all_sections).sections, sealed)
         IN  IF r.err # ""
             THEN [err |-> r.err, all_stacks |-> all_stacks, sealed |-> r.sealed]
             ELSE BuildStacks(Tail(all_sections), Append(all_stacks, r.stack), r.sealed)

\* create_all_mipmaps is called: the executor is made
InitDriver ==
    /\ NoMontage
    /\ NoExport
    /\ NoPost
    /\ NoStitch
    /\ NoMatchTiles
    /\ NoSections
    /\ NoUpload
    /\ tasks = <<>>
    /\ futures = {}
    /\ drv = [IdleDriver EXCEPT !.pc = "submit"]

\* executor.submit(self.create_mipmaps, file_path, ...); futures.add(future)
Submit(name, zvalue) ==
    /\ drv.pc = "submit"
    /\ Len(tasks) < MaxTasks
    /\ tasks' = Append(tasks, [state |-> "pending",
                               tiles |-> <<TaskTiles[Len(tasks) + 1][name][zvalue]>>])
    /\ futures' = futures \cup {Len(tasks) + 1}
    /\ UNCHANGED <<drv, notdrv>>

\* the last file is submitted: as_completed(futures) begins; tqdm divides by
\* len(futures)
EndSubmit ==
    /\ drv.pc = "submit"
    /\ drv' = IF futures = {}
              THEN [drv EXCEPT !.pc = "finally", !.exc = "ZeroDivisionError"]
              ELSE [drv EXCEPT !.pc = "collect"]
    /\ UNCHANGED <<tasks, futures, notdrv>>

\* a free worker thread takes the oldest task of the queue
Start ==
    /\ Cardinality(InState("running")) < Parallel
    /\ InState("pending") # {}
    /\ LET t == CHOOSE p \in InState("pending") : \A q \in InState("pending") : p <= q
       IN  tasks' = [tasks EXCEPT ![t].state = "running"]
    /\ UNCHANGED <<futures, drv, notdrv>>

\* create_mipmaps returns its tiles or raises
Finish(t, ok) ==
    /\ tasks[t].state = "running"
    /\ tasks' = [tasks EXCEPT ![t].state = IF ok THEN "done" ELSE "failed"]
    /\ UNCHANGED <<futures, drv, notdrv>>

\* the mutant of Result: the exception of the task is dropped
Result_Dropped(task) == [err |-> "", tiles |-> IF task.state = "failed" THEN <<>> ELSE task.tiles]

\* future.result(): the tiles, or the exception of the task raised again
Result(task) ==
    IF task.state = "failed" THEN [err |-> "TaskError", tiles |-> <<>>]
    ELSE [err |-> "", tiles |-> task.tiles]

\* one turn of the loop over as_completed(futures): futures.remove(future),
\* future.result() and the tiles added to their sections
Collect(t) ==
    /\ drv.pc = "collect"
    /\ t \in futures
    /\ tasks[t].state \in {"done", "failed"}
    /\ futures' = futures \ {t}
    /\ IF Result(tasks[t]).err # ""
       THEN drv' = [drv EXCEPT !.pc = "finally", !.exc = Result(tasks[t]).err]
       ELSE LET r == CollectTiles(drv.all_sections, Result(tasks[t]).tiles)
            IN  drv' = [drv EXCEPT !.all_sections = r.all_sections,
                                   !.exc = r.err,
                                   !.pc = IF r.err # "" \/ futures' = {}
                                          THEN "finally" ELSE "collect"]
    /\ UNCHANGED <<tasks, notdrv>>

\* finally: future.cancel() for every future left in futures
Finally ==
    /\ drv.pc = "finally"
    /\ tasks' = [t \in DOMAIN tasks |->
                    IF t \in futures /\ tasks[t].state = "pending"
                    THEN [tasks[t] EXCEPT !.state = "cancelled"]
                    ELSE tasks[t]]
    /\ drv' = [drv EXCEPT !.pc = "shutdown", !.cancelled = futures]
    /\ UNCHANGED <<futures, notdrv>>

\* executor.shutdown() returns when no task runs or waits; the exception
\* goes on to the caller, or the stacks are built and returned
Shutdown ==
    /\ drv.pc = "shutdown"
    /\ InState("running") = {} /\ InState("pending") = {}
    /\ IF drv.exc # ""
       THEN drv' = [drv EXCEPT !.pc = "raised", !.shutdown = TRUE]
       ELSE LET r == BuildStacks(drv.all_sections, <<>>, 0)
            IN  drv' = [drv EXCEPT !.shutdown = TRUE,
                                   !.sealed = r.sealed,
                                   !.exc = r.err,
                                   !.pc = IF r.err # "" THEN "raised" ELSE "returned",
                                   !.all_stacks = IF r.err # "" THEN <<>> ELSE r.all_stacks]
    /\ UNCHANGED <<tasks, futures, notdrv>>

NextDriver ==
    \/ \E name \in {"raw", "EM_lomag"}, zvalue \in ZValues : Submit(name, zvalue)
    \/ EndSubmit
    \/ Start
    \/ \E t \in DOMAIN tasks, ok \in BOOLEAN : Finish(t, ok)
    \/ \E t \in DOMAIN tasks : Collect(t)
    \/ Finally
    \/ Shutdown

SpecDriver == InitDriver /\ [][NextDriver]_vars

\* ------------------------------------------------------------------ get_match_tiles
GridWidth == 3
GridHeight == 2

\* Bounds(**tile): the _tile_bounds of one tile of the list
TileBounds(min_x, min_y, max_x, max_y, tile_id, z) ==
    [min_x |-> min_x, min_y |-> min_y, max_x |-> max_x, max_y |-> max_y,
     tile_id |-> tile_id, z |-> z]

\* the tile id of the image at a column and a row of the grid
CellId(cell) == 10 * cell[1] + cell[2]

\* the bounds get_tilebounds_for_z lists for a section whose images lie at
\* the given cells of the importer's grid, each size wide and high; with
\* odd the last tile of the list is one pixel wider
GridBounds(cells, size, z, odd) ==
    LET ids == Sorted({CellId(cell) : cell \in cells})
    IN  [i \in 1..Len(ids) |->
            LET col == ids[i] \div 10
                row == ids[i] % 10
            IN  TileBounds(col * size, row * size,
                           (col + 1) * size + (IF odd /\ i = Len(ids) THEN 1 ELSE 0),
                           (row + 1) * size, ids[i], z)]

\* the first tile that is not size wide and size high, 0 when all are
WrongSize(bounds, size) ==
    IF \E i \in DOMAIN bounds :
          bounds[i].max_x - bounds[i].min_x # size \/ bounds[i].max_y - bounds[i].min_y # size
    THEN CHOOSE i \in DOMAIN bounds :
          /\ bounds[i].max_x - bounds[i].min_x # size \/ bounds[i].max_y - bounds[i].min_y # size
          /\ \A j \in 1..(i - 1) :
                bounds[j].max_x - bounds[j].min_x = size /\ bounds[j].max_y - bounds[j].min_y = size
    ELSE 0

\* x_dict: the keys, the keys of x_dict[x], and x_dict[x][y], the tile that
\* was written last for the corner
XKeys(bounds) == {bounds[i].min_x : i \in DOMAIN bounds}
YKeys(bounds, x) == {bounds[i].min_y : i \in {j \in DOMAIN bounds : bounds[j].min_x = x}}
XDict(bounds, x, y) ==
    LET at == {i \in DOMAIN bounds : bounds[i].min_x = x /\ bounds[i].min_y = y}
    IN  bounds[CHOOSE i \in at : \A j \in at : j <= i].tile_id

\* ylen: the largest len(y_dict)
YLen(bounds) ==
    LET lens == {Cardinality(YKeys(bounds, x)) : x \in XKeys(bounds)}
    IN  IF lens = {} THEN 0 ELSE CHOOSE m \in lens : \A l \in lens : l <= m

\* the mutant of Corner: the two directions exchanged
Corner_Exchanged(tile, direction) ==
    IF direction = 1 THEN <<tile.max_x, tile.min_y>> ELSE <<tile.min_x, tile.max_y>>

\* the corner where a neighbour of the tile begins: (max_x, min_y) for the
\* horizontal direction 0, (min_x, max_y) for the vertical direction 1
Corner(tile, direction) ==
    IF direction = 0 THEN <<tile.max_x, tile.min_y>> ELSE <<tile.min_x, tile.max_y>>

HasMatch(bounds, tile, direction) ==
    LET c == Corner(tile, direction)
    IN  c[1] \in XKeys(bounds) /\ c[2] \in YKeys(bounds, c[1])

\* (tile.tile_id, matched, x, y, tile.section_id)
TilePair(bounds, tile, direction) ==
    LET c == Corner(tile, direction)
    IN  [p |-> tile.tile_id, q |-> XDict(bounds, c[1], c[2]), x |-> c[1], y |-> c[2],
         z |-> tile.z]

\* the loop over the tiles for one direction: the list of matches
RECURSIVE Matches(_, _, _)
Matches(bounds, rest, direction) ==
    IF rest = <<>> THEN <<>>
    ELSE (IF HasMatch(bounds, Head(rest), direction)
          THEN <<TilePair(bounds, Head(rest), direction)>> ELSE <<>>)
         \o Matches(bounds, Tail(rest), direction)

Unmatched(bounds, direction) ==
    Cardinality({i \in DOMAIN bounds : ~HasMatch(bounds, bounds[i], direction)})

\* the mutant of TooFew: the comparison the other way round
TooFew_Reversed(unmatched, len) == unmatched > len

\* the test before "somehow matched more tiles than possible"
TooFew(unmatched, len) == unmatched < len

\* the body of the loop over z_values for one z, size being None before the
\* first tile: the error raised, or the two lists of matches
GetMatchTilesZ(bounds, size_before) ==
    LET size == IF size_before = None /\ bounds # <<>>
                THEN bounds[1].max_x - bounds[1].min_x ELSE size_before
        xlen == Cardinality(XKeys(bounds))
        ylen == YLen(bounds)
        x_matches == Matches(bounds, bounds, 0)
        x_unmatched == Unmatched(bounds, 0)
        y_matches == Matches(bounds, bounds, 1)
        y_unmatched == Unmatched(bounds, 1)
        counts == [size |-> size, xlen |-> xlen, ylen |-> ylen,
                   x_unmatched |-> x_unmatched, y_unmatched |-> y_unmatched]
        raise(e) == [err |-> e, x_matches |-> <<>>, y_matches |-> <<>>, counts |-> counts]
    IN  IF WrongSize(bounds, size) # 0 THEN raise("RuntimeError: not the right size")
        ELSE IF x_matches = <<>> THEN raise("RuntimeError: could not find any matches")
        ELSE IF TooFew(x_unmatched, ylen) THEN raise("RuntimeError: matched more tiles than possible")
        ELSE IF y_matches = <<>> THEN raise("RuntimeError: could not find any matches")
        ELSE IF TooFew(y_unmatched, xlen) THEN raise("RuntimeError: matched more tiles than possible")
        ELSE [err |-> "", x_matches |-> x_matches, y_matches |-> y_matches,
              counts |-> counts]

\* the sections of the stack: images at any cells of the grid
GridCells == (0..(GridWidth - 1)) \X (0..(GridHeight - 1))

Sections == {GridBounds(cells, 2, 0, odd) : cells \in SUBSET GridCells, odd \in BOOLEAN}

\* the stack holds one z-level
InitTiles ==
    /\ NoMontage
    /\ NoExport
    /\ NoPost
    /\ NoStitch
    /\ NoSections
    /\ NoUpload
    /\ NoDriver
    /\ tilebounds \in Sections
    /\ matched = NoResult

\* get_match_tiles(stack, [z], render)
GetMatchTiles ==
    /\ matched = NoResult
    /\ matched' = GetMatchTilesZ(tilebounds, None)
    /\ UNCHANGED <<tilebounds, notgmt>>

NextTiles == GetMatchTiles

SpecTiles == InitTiles /\ [][NextTiles]_vars

\* ------------------------------------------------------------------ get_all_matches
MaxWorkers == 2

\* the tilepairs of self.matched_tiles in the order they are submitted: per
\* z the horizontal ones, then the vertical ones
PairsOf(result) ==
    [i \in 1..(Len(result.x_matches) + Len(result.y_matches)) |->
        IF i <= Len(result.x_matches)
        THEN [pair |-> result.x_matches[i], direction |-> 0]
        ELSE [pair |-> result.y_matches[i - Len(result.x_matches)], direction |-> 1]]

\* a stack of one z-level of two by two tiles
SquareCells == {<<0, 0>>, <<0, 1>>, <<1, 0>>, <<1, 1>>}
PoolPairs == PairsOf(GetMatchTilesZ(GridBounds(SquareCells, 2, 0, FALSE), None))

Finished(t) == mtasks[t].state \in {"done", "failed"}
Busy == {t \in DOMAIN mtasks : mtasks[t].state \in {"running", "download", "sift"}}

\* the tasks that have not started: waiting in the pool or not submitted
NotStarted ==
    {t \in DOMAIN st.pairs : t > Len(mtasks) \/ mtasks[t].state = "queued"}

\* the task raises; the first time, the tasks not started are noted
Fails(t) ==
    /\ mtasks' = [mtasks EXCEPT ![t].state = "failed"]
    /\ st' = IF \E o \in DOMAIN mtasks : mtasks[o].state = "failed" THEN st
             ELSE [st EXCEPT !.unstarted = NotStarted]

\* the mutant of LockFree: the lock is not looked at
LockFree_Always(holder) == TRUE

\* image_limit can be taken
LockFree(holder) == holder = 0

\* dict.pop(name) and dict[name] of a dict kept as the list of its items
DictHas(dict, name) == \E i \in DOMAIN dict : dict[i].name = name
DictGet(dict, name) == dict[CHOOSE i \in DOMAIN dict : dict[i].name = name].items
DictPop(dict, name) == SelectSeq(dict, LAMBDA item : item.name # name)

\* defaultdict(list)[name].append(item)
DictAppend(dict, name, item) ==
    IF DictHas(dict, name)
    THEN [i \in DOMAIN dict |->
            IF dict[i].name = name THEN [dict[i] EXCEPT !.items = Append(@, item)]
            ELSE dict[i]]
    ELSE Append(dict, [name |-> name, items |-> <<item>>])

\* the dict make_pointmatches returns for an accepted pair
MatchDict(matcher) ==
    [pId |-> matcher.pair.p, qId |-> matcher.pair.q, z |-> matcher.pair.z]

\* the body of the loop over as_completed for a result that is not empty
CollectResult(s, matcher) ==
    LET zlevel == matcher.pair.z
        p_name == matcher.pair.p
        q_name == matcher.pair.q
        connections == IF DictHas(s.z_connections, zlevel)
                       THEN DictGet(s.z_connections, zlevel) ELSE <<>>
        both == DictAppend(DictAppend(connections, p_name, q_name), q_name, p_name)
    IN  [s EXCEPT !.z_all_matches = DictAppend(@, zlevel, MatchDict(matcher)),
                  !.z_connections =
                      IF DictHas(@, zlevel)
                      THEN [i \in DOMAIN @ |->
                              IF @[i].name = zlevel THEN [@[i] EXCEPT !.items = both]
                              ELSE @[i]]
                      ELSE Append(@, [name |-> zlevel, items |-> both])]

\* ------------------------------------------------------------------ filter_tilespecs
\* the loop over level_connections.pop(name): the items not yet connected
\* nor waiting are appended to checking
RECURSIVE Push(_, _, _)
Push(checking, connected, items) ==
    IF items = <<>> THEN checking
    ELSE LET item == Head(items)
             seen == item \in connected \/ \E i \in DOMAIN checking : checking[i] = item
         IN  Push(IF seen THEN checking ELSE Append(checking, item), connected, Tail(items))

\* while checking: name = checking.pop(); connected.add(name); ...
RECURSIVE Connect(_, _, _)
Connect(checking, connected, level_connections) ==
    IF checking = <<>>
    THEN [connected |-> connected, level_connections |-> level_connections]
    ELSE LET name == checking[Len(checking)]
             rest == SubSeq(checking, 1, Len(checking) - 1)
             now == connected \cup {name}
         IN  Connect(Push(rest, now, DictGet(level_connections, name)), now,
                     DictPop(level_connections, name))

\* while level_connections: the groups in the order they are found
RECURSIVE Groups(_)
Groups(level_connections) ==
    IF level_connections = <<>> THEN <<>>
    ELSE LET r == Connect(<<level_connections[1].name>>, {}, level_connections)
         IN  <<r.connected>> \o Groups(r.level_connections)

\* the mutant of Larger: a smaller group replaces the one kept
Larger_Smaller(size, largest) == largest = 0 \/ size < largest

\* if len(group) > largest
Larger(size, largest) == size > largest

\* the loop over groups: largest_group
RECURSIVE LargestGroup(_, _, _)
LargestGroup(groups, largest_group, largest) ==
    IF groups = <<>> THEN largest_group
    ELSE IF Larger(Cardinality(Head(groups)), largest)
         THEN LargestGroup(Tail(groups), Head(groups), Cardinality(Head(groups)))
         ELSE LargestGroup(Tail(groups), largest_group, largest)

\* the mutant of FilterLevel: every match of the zlevel is sent
FilterLevel_EveryMatch(level_matches, level_connections) ==
    [tiles |-> LargestGroup(Groups(level_connections), {}, 0),
     matches |-> level_matches]

\* the body of the loop over self.z_values for a zlevel that has matches
FilterLevel(level_matches, level_connections) ==
    LET largest_group == LargestGroup(Groups(level_connections), {}, 0)
    IN  [tiles |-> largest_group,
         matches |-> SelectSeq(level_matches,
                        LAMBDA m : m.pId \in largest_group \/ m.qId \in largest_group)]

\* the loop over self.z_values: good_tilespecs as the set of (tile id, z),
\* matches_to_send as a list
RECURSIVE FilterLevels(_, _, _)
FilterLevels(z_values, matches, connections) ==
    IF z_values = <<>> THEN [good_tilespecs |-> {}, matches_to_send |-> <<>>]
    ELSE LET zlevel == Head(z_values)
             rest == FilterLevels(Tail(z_values), matches, connections)
         IN  IF ~DictHas(matches, zlevel) THEN rest
             ELSE LET r == FilterLevel(DictGet(matches, zlevel), DictGet(connections, zlevel))
                  IN  [good_tilespecs |->
                          {[tileId |-> id, z |-> zlevel] : id \in r.tiles}
                          \cup rest.good_tilespecs,
                       matches_to_send |-> r.matches \o rest.matches_to_send]

\* self.z_values: the z of the tilepairs, ascending
ZValuesOf(pairs) == Sorted({pairs[i].pair.z : i \in DOMAIN pairs})

\* ------------------------------------------------------------------ Stitcher.run
\* get_all_matches is entered: the Manager lock and the pool are made
InitPool ==
    /\ NoMontage
    /\ NoExport
    /\ NoPost
    /\ NoSections
    /\ NoUpload
    /\ NoDriver
    /\ NoMatchTiles
    /\ mtasks = <<>>
    /\ lock = 0
    /\ st = [IdleStitcher EXCEPT !.pc = "submit", !.pairs = PoolPairs]

\* pool.submit(matcher.make_pointmatches, image_limit); after the last one
\* the with block of the pool is left
PoolSubmit ==
    /\ st.pc = "submit"
    /\ mtasks' = Append(mtasks, [matcher |-> st.pairs[Len(mtasks) + 1],
                                 state |-> "queued", result |-> ""])
    /\ st' = IF Len(mtasks') = Len(st.pairs) THEN [st EXCEPT !.pc = "exit"] ELSE st
    /\ UNCHANGED <<lock, notst>>

\* a free worker process takes the oldest task of the queue
PoolStart ==
    /\ Cardinality(Busy) < MaxWorkers
    /\ \E t \in DOMAIN mtasks :
        /\ mtasks[t].state = "queued"
        /\ \A o \in 1..(t - 1) : mtasks[o].state # "queued"
        /\ mtasks' = [mtasks EXCEPT ![t].state = "running"]
    /\ UNCHANGED <<lock, st, notst>>

\* get_images: with image_limit is entered and get_bb_image is called
Acquire(t) ==
    /\ mtasks[t].state = "running"
    /\ LockFree(lock)
    /\ lock' = t
    /\ mtasks' = [mtasks EXCEPT ![t].state = "download"]
    /\ UNCHANGED <<st, notst>>

\* get_bb_image returns an image or a RenderError, or raises; the with
\* block is left; a RenderError is raised by get_images
Download(t, outcome) ==
    /\ mtasks[t].state = "download"
    /\ lock' = IF lock = t THEN 0 ELSE lock
    /\ IF outcome = "image"
       THEN mtasks' = [mtasks EXCEPT ![t].state = "sift"] /\ st' = st
       ELSE Fails(t)
    /\ UNCHANGED notst

\* the rest of make_pointmatches: the dict of the pointmatches, {} or an
\* exception
Sift(t, outcome) ==
    /\ mtasks[t].state = "sift"
    /\ IF outcome = "raise" THEN Fails(t)
       ELSE /\ mtasks' = [mtasks EXCEPT ![t].state = "done", ![t].result = outcome]
            /\ st' = st
    /\ UNCHANGED <<lock, notst>>

\* the with block of the pool ends: shutdown waits for every task
PoolExit ==
    /\ st.pc = "exit"
    /\ \A t \in DOMAIN mtasks : Finished(t)
    /\ st' = [st EXCEPT !.pc = "collect"]
    /\ UNCHANGED <<mtasks, lock, notst>>

\* one turn of the loop over as_completed(futures): future.result() and the
\* result kept; after the last one get_all_matches returns
CollectMatch(t) ==
    /\ st.pc = "collect"
    /\ t \notin st.collected
    /\ Finished(t)
    /\ LET got == [st EXCEPT !.collected = @ \cup {t}]
           kept == IF mtasks[t].result = "match"
                   THEN CollectResult(got, mtasks[t].matcher) ELSE got
       IN  st' = IF mtasks[t].state = "failed"
                 THEN [got EXCEPT !.pc = "raised", !.exc = "TaskError"]
                 ELSE IF kept.collected = DOMAIN mtasks
                      THEN [kept EXCEPT !.pc = "filter"] ELSE kept
    /\ UNCHANGED <<mtasks, lock, notst>>

\* filter_tilespecs(matches, connections): the tile-specs are fetched and
\* filtered
FilterTilespecs(ok) ==
    /\ st.pc = "filter"
    /\ st' = IF ~ok THEN [st EXCEPT !.pc = "raised", !.exc = "RenderError"]
             ELSE LET r == FilterLevels(ZValuesOf(st.pairs), st.z_all_matches,
                                        st.z_connections)
                  IN  [st EXCEPT !.pc = "filtered",
                                 !.good_tilespecs = r.good_tilespecs,
                                 !.matches_to_send = r.matches_to_send]
    /\ UNCHANGED <<mtasks, lock, notst>>

NextPool ==
    \/ PoolSubmit
    \/ PoolStart
    \/ \E t \in DOMAIN mtasks : Acquire(t)
    \/ \E t \in DOMAIN mtasks, outcome \in {"image", "RenderError", "raise"} :
            Download(t, outcome)
    \/ \E t \in DOMAIN mtasks, outcome \in {"match", "empty", "raise"} : Sift(t, outcome)
    \/ PoolExit
    \/ \E t \in DOMAIN mtasks : CollectMatch(t)
    \/ \E ok \in BOOLEAN : FilterTilespecs(ok)

SpecPool == InitPool /\ [][NextPool]_vars

\* ------------------------------------------------------------------ collected matches
MaxAccepted == 3

\* a stack of two z-levels: three by two tiles, and three tiles in a corner
WideCells == {<<0, 0>>, <<0, 1>>, <<1, 0>>, <<1, 1>>, <<2, 0>>, <<2, 1>>}
CornerCells == {<<0, 0>>, <<0, 1>>, <<1, 0>>}
FilterPairs ==
    PairsOf(GetMatchTilesZ(GridBounds(WideCells, 2, 0, FALSE), None))
    \o PairsOf(GetMatchTilesZ(GridBounds(CornerCells, 2, 1, FALSE), 2))

\* the futures when the pool has been left and no task has raised: up to
\* MaxAccepted of the tilepairs have pointmatches, the others returned {}
DoneTasks ==
    {[t \in DOMAIN FilterPairs |->
        [matcher |-> FilterPairs[t], state |-> "done",
         result |-> IF t \in accepted THEN "match" ELSE "empty"]] :
        accepted \in {a \in SUBSET DOMAIN FilterPairs : Cardinality(a) <= MaxAccepted}}

\* get_all_matches at the loop over as_completed(futures)
InitFilter ==
    /\ NoMontage
    /\ NoExport
    /\ NoPost
    /\ NoSections
    /\ NoUpload
    /\ NoDriver
    /\ NoMatchTiles
    /\ mtasks \in DoneTasks
    /\ lock = 0
    /\ st = [IdleStitcher EXCEPT !.pc = "collect", !.pairs = FilterPairs]

NextFilter ==
    \/ \E t \in DOMAIN mtasks : CollectMatch(t)
    \/ \E ok \in BOOLEAN : FilterTilespecs(ok)

SpecFilter == InitFilter /\ [][NextFilter]_vars

\* ------------------------------------------------------------------ post-corrector
\* the number of section directories of a project
MaxSections == 2
\* the number of images of a section that differ from the others
MaxVaried == 1

RESTORE_MEAN_LEVEL == 32768
MIN_CLEAN == 20

\* the script properties the Post_Corrector is constructed with
CLOBBER == TRUE
A == 3

\* the values get_med and get_mad return for the sample of the project
Med == 40000
Mad == 1

\* an image is one pixel of 16 bits, and its percentile is that pixel; the
\* images that vary are black, a little brighter than the median, or white
UInt16 == 65536
PixelValues == {0, Med + 1, UInt16 - 1}

\* the images of one section directory, in the order of the glob
Files(n, k, v) == [i \in 1..n |-> IF i <= k THEN v ELSE Med]

SectionSizes == {MIN_CLEAN, MIN_CLEAN + 1, MIN_CLEAN + 2}

SectionFiles ==
    {Files(n, k, v) : n \in SectionSizes, k \in 0..MaxVaried, v \in PixelValues}

\* a section directory before post-correction: no postcorrection directory
SectionDir(files) ==
    [files |-> files, exists |-> FALSE, written |-> <<>>, sum_of_files |-> None]

\* post_correct_section and post_correct_failed_section have not been called
NotCalled == [state |-> "none", exc |-> "", background |-> <<>>]

\* Post_Corrector.has_artefact: the percentile is outside med -+ a * mad
has_artefact(image, med, mad, a) ==
    (image < med - a * mad) \/ (image > med + a * mad)

\* fps_clean of post_correct_section: the images without artefact
CleanImages(filepaths, med, mad) ==
    SelectSeq(filepaths, LAMBDA image : ~has_artefact(image, med, mad, A))

RECURSIVE SeqSum(_)
SeqSum(seq) == IF seq = <<>> THEN 0 ELSE Head(seq) + SeqSum(Tail(seq))

\* background = sum_of_files / len(fps_clean), a float
Background(fps_clean) == Rat(SeqSum(fps_clean), Len(fps_clean))

\* the integer part of a float, toward zero
Trunc(r) == IF r.n >= 0 THEN r.n \div r.d ELSE 0 - ((0 - r.n) \div r.d)

\* what a float outside 0..65535 becomes: the cast is undefined there, a
\* build keeps the low 16 bits or takes the nearest bound
Casts == {"wrap", "saturate"}

\* ndarray.astype(np.uint16) of a float array
AsUInt16(x, cast) ==
    LET t == Trunc(x)
    IN  IF t >= 0 /\ t < UInt16 THEN t
        ELSE IF cast = "wrap" THEN t % UInt16
        ELSE IF t < 0 THEN 0 ELSE UInt16 - 1

\* image - background + RESTORE_MEAN_LEVEL with a float background
Restored(image, background) ==
    Rat((image + RESTORE_MEAN_LEVEL) * background.d - background.n, background.d)

\* image - background + RESTORE_MEAN_LEVEL with both arrays of uint16: the
\* difference and the sum stay uint16
RestoredUInt16(image, background) ==
    (((image - background) % UInt16) + RESTORE_MEAN_LEVEL) % UInt16

\* mkdir(parents=True, exist_ok=self.clobber) of the postcorrection directory
MkdirFails(dir) == dir.exists /\ ~CLOBBER

\* Post_Corrector.post_correct: the exception ("" when none), the directory
\* after the call and the background
post_correct(dir, fps_clean, cast) ==
    IF MkdirFails(dir)
    THEN [exc |-> "FileExistsError", dir |-> dir, background |-> <<>>]
    ELSE LET background == Background(fps_clean)
         IN  [exc |-> "",
              dir |-> [dir EXCEPT
                         !.exists = TRUE,
                         !.written = [i \in 1..Len(dir.files) |->
                            AsUInt16(Restored(dir.files[i], background), cast)],
                         !.sum_of_files = AsUInt16(background, cast)],
              background |-> background]

\* Post_Corrector.post_correct_section: the section is corrected, or returned
\* as failed
post_correct_section(dir, med, mad, cast) ==
    LET fps_clean == CleanImages(dir.files, med, mad)
    IN  IF Len(fps_clean) > MIN_CLEAN
        THEN LET done == post_correct(dir, fps_clean, cast)
             IN  [dir |-> done.dir,
                  call |-> [state |-> IF done.exc = "" THEN "corrected" ELSE "raised",
                            exc |-> done.exc, background |-> done.background]]
        ELSE [dir |-> dir,
              call |-> [state |-> "failed", exc |-> "", background |-> <<>>]]

\* the mutant of Paths2Search: every section below, then every section above
Paths2Search_LowerFirst(s, count, j) ==
    [i \in 1..(count - 1) |-> IF i < s THEN s - i ELSE i + 1]

\* paths_2_search: the sections below and above s, nearest first, the one
\* below before the one above
RECURSIVE Paths2Search(_, _, _)
Paths2Search(s, count, j) ==
    IF s - j < 1 /\ s + j > count THEN <<>>
    ELSE (IF s - j >= 1 THEN <<s - j>> ELSE <<>>)
         \o (IF s + j <= count THEN <<s + j>> ELSE <<>>)
         \o Paths2Search(s, count, j + 1)

\* the loop over paths_2_search: the first sum_of_files.tiff there is, None
\* when background is never assigned
NearestBackground(dirs, paths) ==
    LET found == SelectSeq(paths, LAMBDA d : dirs[d].sum_of_files # None)
    IN  IF found = <<>> THEN None ELSE dirs[found[1]].sum_of_files

\* Post_Corrector.post_correct_failed_section
post_correct_failed_section(dirs, s) ==
    LET dir == dirs[s]
        background == NearestBackground(dirs, Paths2Search(s, Len(dirs), 1))
    IN  IF MkdirFails(dir)
        THEN [dir |-> dir,
              call |-> [state |-> "raised", exc |-> "FileExistsError",
                        background |-> <<>>]]
        ELSE IF background = None
        THEN [dir |-> [dir EXCEPT !.exists = TRUE],
              call |-> [state |-> "raised", exc |-> "UnboundLocalError",
                        background |-> <<>>]]
        ELSE [dir |-> [dir EXCEPT
                         !.exists = TRUE,
                         !.written = [i \in 1..Len(dir.files) |->
                            RestoredUInt16(dir.files[i], background)],
                         !.sum_of_files = background],
              call |-> [state |-> "failed_corrected", exc |-> "",
                        background |-> Rat(background, 1)]]

\* a project of section directories, none post-corrected
InitPost ==
    /\ NoMontage
    /\ NoExport
    /\ NoSections
    /\ NoUpload
    /\ NoDriver
    /\ NoMatchTiles
    /\ NoStitch
    /\ project \in {[s \in 1..MaxSections |-> SectionDir(files[s])] :
                      files \in [1..MaxSections -> SectionFiles]}
    /\ calls = [s \in 1..MaxSections |-> NotCalled]
    /\ pdrv = IdlePostDriver

\* one task of post_correct_all_sections runs post_correct_section
PostCorrectSection(s, cast) ==
    /\ calls[s].state = "none"
    /\ LET done == post_correct_section(project[s], Med, Mad, cast)
       IN  /\ project' = [project EXCEPT ![s] = done.dir]
           /\ calls' = [calls EXCEPT ![s] = done.call]
    /\ UNCHANGED <<pdrv, notpost>>

\* post_correct_failed_sections runs post_correct_failed_section for a
\* section returned as failed, after every section had its first call and
\* while no call has raised
PostCorrectFailedSection(s) ==
    /\ \A other \in DOMAIN project : calls[other].state \notin {"none", "raised"}
    /\ calls[s].state = "failed"
    /\ LET done == post_correct_failed_section(project, s)
       IN  /\ project' = [project EXCEPT ![s] = done.dir]
           /\ calls' = [calls EXCEPT ![s] = done.call]
    /\ UNCHANGED <<pdrv, notpost>>

NextPost ==
    \/ \E s \in DOMAIN project, cast \in Casts : PostCorrectSection(s, cast)
    \/ \E s \in DOMAIN project : PostCorrectFailedSection(s)

SpecPost == InitPost /\ [][NextPost]_vars

\* ------------------------------------------------------------------ fallback pass
\* the number of section directories in project_paths
MaxPaths == 5

\* a section whose images are all alike and clean: its background tells
\* which section it is
AlikeFiles(d) == [i \in 1..(MIN_CLEAN + 1) |-> Med + d - A * Mad]

\* a section without a clean image
DarkFiles == [i \in 1..MIN_CLEAN |-> 0]

\* what the first pass leaves of project_paths when the sections of failed
\* have no clean image
AfterFirstPass(count, failed) ==
    [d \in 1..count |->
        post_correct_section(
            SectionDir(IF d \in failed THEN DarkFiles ELSE AlikeFiles(d)),
            Med, Mad, "wrap")]

\* post_correct_failed_sections is called with the sections post_correct_section
\* returned
InitFallback ==
    /\ NoMontage
    /\ NoExport
    /\ NoSections
    /\ NoUpload
    /\ NoDriver
    /\ NoMatchTiles
    /\ NoStitch
    /\ \E count \in 1..MaxPaths : \E failed \in SUBSET (1..count) :
        LET first == AfterFirstPass(count, failed)
        IN  /\ project = [d \in 1..count |-> first[d].dir]
            /\ calls = [d \in 1..count |-> first[d].call]
    /\ pdrv = IdlePostDriver

NextFallback == \E s \in DOMAIN project : PostCorrectFailedSection(s)

SpecFallback == InitFallback /\ [][NextFallback]_vars

\* ------------------------------------------------------------------ post_correct_all_sections
SAMPLE_SIZE == 10

\* what the constructor got as project_paths: nothing, the sorted list of
\* the script, or a mapping by z-level
PathKinds == {"none", "list", "dict"}

\* Post_Corrector.find_files: the directories whose images the rounds of the
\* loop get, 0 for project_path and d for project_paths[d]. Without the
\* attribute and with a list, which has no items(), project_path alone is
\* globbed; the items of a dict are pairs, which have no glob()
find_files(kind) ==
    IF kind = "dict"
    THEN [exc |-> "AttributeError", dirs |-> <<>>]
    ELSE [exc |-> "", dirs |-> <<0>>]

\* the directory a round of the loop is about
DirOf(t) == IF t = 0 THEN pdrv.root ELSE project[t]

\* the images project_path itself holds
RootFiles == {<<>>} \cup SectionFiles

\* Post_Corrector(PROJECT_PATH, ..., project_paths) is constructed and
\* post_correct_all_sections is called
InitAll ==
    /\ NoMontage
    /\ NoExport
    /\ NoSections
    /\ NoUpload
    /\ NoDriver
    /\ NoMatchTiles
    /\ NoStitch
    /\ \E kind \in PathKinds, files \in RootFiles :
        \E count \in 1..MaxSections : \E failed \in SUBSET (1..count) :
            /\ project = IF kind = "none" THEN <<>>
                         ELSE [d \in 1..count |->
                                SectionDir(IF d \in failed THEN DarkFiles
                                           ELSE AlikeFiles(d))]
            /\ calls = [d \in DOMAIN project |-> NotCalled]
            /\ pdrv = [IdlePostDriver EXCEPT
                         !.pc = "sample", !.project_paths = kind,
                         !.root = SectionDir(files), !.rootcall = NotCalled]

\* the directories of dirs up to the first with fewer than SAMPLE_SIZE images
RECURSIVE Sampled(_)
Sampled(dirs) ==
    IF dirs = <<>> \/ Len(DirOf(Head(dirs)).files) < SAMPLE_SIZE THEN <<>>
    ELSE <<Head(dirs)>> \o Sampled(Tail(dirs))

\* the loop over find_files() with random.sample, then get_med and get_mad
Sample ==
    /\ pdrv.pc = "sample"
    /\ LET found == find_files(pdrv.project_paths)
           sampled == Sampled(found.dirs)
       IN  pdrv' = IF found.exc # ""
                   THEN [pdrv EXCEPT !.pc = "raised", !.exc = found.exc]
                   ELSE IF Len(sampled) < Len(found.dirs)
                   THEN [pdrv EXCEPT !.pc = "raised", !.exc = "ValueError",
                                     !.sampled = sampled]
                   ELSE [pdrv EXCEPT !.pc = "submit", !.sampled = sampled]
    /\ UNCHANGED <<project, calls, notpost>>

\* executor.submit(self.post_correct_section, filepaths, med, mad) for every
\* round of the loop over find_files()
SubmitSections ==
    /\ pdrv.pc = "submit"
    /\ LET found == find_files(pdrv.project_paths)
       IN  pdrv' = IF found.exc # ""
                   THEN [pdrv EXCEPT !.pc = "raised", !.exc = found.exc]
                   ELSE [pdrv EXCEPT
                           !.pc = "collect",
                           !.tasks = [i \in 1..Len(found.dirs) |->
                                        [dir |-> found.dirs[i], state |-> "queued",
                                         exc |-> "", result |-> <<>>]]]
    /\ UNCHANGED <<project, calls, notpost>>

\* a thread of the executor runs post_correct_section for one task
RunSection(i, cast) ==
    /\ pdrv.pc = "collect"
    /\ i \in DOMAIN pdrv.tasks
    /\ pdrv.tasks[i].state = "queued"
    /\ LET t == pdrv.tasks[i].dir
           done == post_correct_section(DirOf(t), Med, Mad, cast)
           task == [pdrv.tasks[i] EXCEPT
                      !.state = "done", !.exc = done.call.exc,
                      !.result = IF done.call.state = "failed" THEN <<t>> ELSE <<>>]
       IN  IF t = 0
           THEN /\ pdrv' = [pdrv EXCEPT !.tasks[i] = task, !.root = done.dir,
                                        !.rootcall = done.call]
                /\ UNCHANGED <<project, calls>>
           ELSE /\ pdrv' = [pdrv EXCEPT !.tasks[i] = task]
                /\ project' = [project EXCEPT ![t] = done.dir]
                /\ calls' = [calls EXCEPT ![t] = done.call]
    /\ UNCHANGED notpost

\* a round of the loop over as_completed: future.result() is added to
\* failed_sections, or raises and the finally block cancels what waits
CollectSection(i) ==
    /\ pdrv.pc = "collect"
    /\ i \in DOMAIN pdrv.tasks
    /\ pdrv.tasks[i].state = "done"
    /\ pdrv' = IF pdrv.tasks[i].exc # ""
               THEN [pdrv EXCEPT
                       !.pc = "raised", !.exc = pdrv.tasks[i].exc,
                       !.tasks = [j \in DOMAIN pdrv.tasks |->
                            IF j = i THEN [@[j] EXCEPT !.state = "collected"]
                            ELSE IF @[j].state = "queued"
                            THEN [@[j] EXCEPT !.state = "cancelled"]
                            ELSE @[j]]]
               ELSE [pdrv EXCEPT
                       !.tasks[i].state = "collected",
                       !.failed_sections = @ \o pdrv.tasks[i].result]
    /\ UNCHANGED <<project, calls, notpost>>

\* the loop over as_completed is over: executor.shutdown() and return
ReturnFailed ==
    /\ pdrv.pc = "collect"
    /\ \A i \in DOMAIN pdrv.tasks : pdrv.tasks[i].state = "collected"
    /\ pdrv' = [pdrv EXCEPT !.pc = "returned"]
    /\ UNCHANGED <<project, calls, notpost>>

NextAll ==
    \/ Sample
    \/ SubmitSections
    \/ \E i \in 1..(MaxSections + 1), cast \in Casts : RunSection(i, cast)
    \/ \E i \in 1..(MaxSections + 1) : CollectSection(i)
    \/ ReturnFailed

SpecAll == InitAll /\ [][NextAll]_vars

\* ------------------------------------------------------------------ CATMAID exporter
\* the number of stacks to export
MaxStacks == 2

\* self.w_tile, the width and height of a CATMAID tile
w_tile == 1024

RECURSIVE Pow2(_)
Pow2(n) == IF n = 0 THEN 1 ELSE 2 * Pow2(n - 1)

\* whether w / tile <= 2^level
Within(w, tile, level) ==
    IF level >= 0 THEN w <= tile * Pow2(level) ELSE w * Pow2(0 - level) <= tile

\* int(np.ceil(np.log(w / tile) * 1 / np.log(2))) for w > 0
Levels == (0 - 4)..6
CeilLog2(w, tile) ==
    CHOOSE level \in Levels \ {0 - 4} :
        Within(w, tile, level) /\ ~Within(w, tile, level - 1)

\* the widths and heights of the stacks: half a tile, a tile, a pixel more
\* and four tiles
StackSizes == {w_tile \div 2, w_tile, w_tile + 1, 4 * w_tile}

\* get_stack_bounds of the stacks that can be exported
StackBounds ==
    {[minX |-> 0, maxX |-> w, minY |-> 0, maxY |-> h] :
        w \in StackSizes, h \in StackSizes}

\* the lists stacks_2_export, each stack with its bounds on the server
ExportLists ==
    UNION {[1..n -> StackBounds] : n \in 1..MaxStacks}

\* the entry of export_data for a stack, <<>> when there is none
ParamsOf(export_data, name) ==
    LET found == SelectSeq(export_data, LAMBDA e : e.stack = name)
    IN  IF found = <<>> THEN <<>> ELSE found[1]

\* CATMAID_Exporter.set_export_parameters: the return statement is in the
\* body of the loop over the stacks, so it ends the first round; export_data
\* is a list of the entries of the dict, the stacks are named by their index
set_export_parameters(bounds) ==
    IF bounds = <<>> THEN <<>>
    ELSE LET w_stack == Max2(bounds[1].maxX - bounds[1].minX,
                             bounds[1].maxY - bounds[1].minY)
             max_level == CeilLog2(w_stack, w_tile)
             maxest_level == Max2(max_level, 0)
         IN  <<[stack |-> 1, max_level |-> maxest_level]>>

\* export_stacks is called with a list of stacks
InitExport ==
    /\ NoMontage
    /\ NoSections
    /\ NoUpload
    /\ NoDriver
    /\ NoMatchTiles
    /\ NoStitch
    /\ NoPost
    /\ \E bounds \in ExportLists :
        exporter = [IdleExporter EXCEPT !.pc = "parameters", !.stacks = bounds]

\* export_data = self.set_export_parameters(stacks_2_export)
SetExportParameters ==
    /\ exporter.pc = "parameters"
    /\ exporter' = [exporter EXCEPT
                      !.pc = "boxes", !.idx = 1,
                      !.export_data = set_export_parameters(exporter.stacks)]
    /\ UNCHANGED notexp

\* one round of the loop of render_catmaid_boxes_across_N_cores: the boxes
\* of a stack are rendered with export_data[stack]
RenderBoxes ==
    /\ exporter.pc = "boxes"
    /\ exporter.idx <= Len(exporter.stacks)
    /\ LET params == ParamsOf(exporter.export_data, exporter.idx)
       IN  exporter' = IF params = <<>>
                       THEN [exporter EXCEPT !.pc = "raised", !.exc = "KeyError"]
                       ELSE [exporter EXCEPT !.idx = @ + 1,
                                             !.rendered = Append(@, params)]
    /\ UNCHANGED notexp

\* the loop is over
BoxesDone ==
    /\ exporter.pc = "boxes"
    /\ exporter.idx > Len(exporter.stacks)
    /\ exporter' = [exporter EXCEPT !.pc = "rendered"]
    /\ UNCHANGED notexp

NextExport ==
    \/ SetExportParameters
    \/ RenderBoxes
    \/ BoxesDone

SpecExport == InitExport /\ [][NextExport]_vars

\* ------------------------------------------------------------------ montage
\* montage(stack, pointmatch, render, clobber) of stitch/montage.py, called
\* up to MaxMontages times in one process.
MaxMontages == 2

Auths == {"user", "other"}

\* the render connection dict: the host (with or without a scheme and a port
\* in it) and the "port" key, None when the dict has no such key
RenderDicts ==
    {[host |-> [scheme |-> s, port |-> hp], port |-> p] :
        s \in {"", "https://"}, hp \in {None, 8080}, p \in {None, 8080}}

\* the copy of the connection dict that bigfeta gets: the port is taken from
\* the host when the dict has none
Connection(render) ==
    IF render.port # None THEN render
    ELSE IF render.host.port # None
    THEN [host |-> [render.host EXCEPT !.port = None], port |-> render.host.port]
    ELSE IF render.host.scheme = "https://"
    THEN [host |-> render.host, port |-> 443]
    ELSE [host |-> render.host, port |-> 80]

\* renderapi.stack.get_z_values_for_stack
GetZValues(server, name) ==
    IF server[name].state = "ABSENT" THEN Failures(server)
    ELSE {[res |-> "ok", srv |-> server,
           z_values |-> Sorted({spec.z : spec \in server[name].specs})],
          [res |-> "ConnectionError", srv |-> server, z_values |-> <<>>]}

\* a stack of the server with tile-specs at the given z values
Solved(zs) == [state |-> "COMPLETE", specs |-> {[tileId |-> 1, z |-> z] : z \in zs}]

InitMontage ==
    /\ NoExport
    /\ NoPost
    /\ NoStitch
    /\ NoMatchTiles
    /\ NoUpload
    /\ NoDriver
    /\ NoSections
    /\ Session = LibrarySession
    /\ mtg = IdleMontage
    /\ \E zs \in SUBSET ZValues : \E before \in {Absent, Solved({0})} :
        \E input \in {Absent, Solved(zs)} :
            mstacks = [name \in MontageStacks |->
                          IF name = StitchedStack THEN before ELSE input]

MontageEnds == {"idle", "returned", "raised"}

MontageRaised(m, exc) == [m EXCEPT !.at = m.pc, !.pc = "raised", !.exc = exc]

\* montage is called
StartMontage(clobber, auth, render) ==
    /\ mtg.pc \in MontageEnds
    /\ mtg.n < MaxMontages
    /\ mtg' = [n |-> mtg.n + 1, pc |-> "z_values", stack |-> "raw_matching",
               clobber |-> clobber, auth |-> auth, render |-> render,
               z_values |-> <<>>, old_func |-> <<>>, before |-> Session,
               output_stack |-> "", at |-> "", exc |-> ""]
    /\ UNCHANGED <<Session, mstacks, notmon>>

\* the z values of the stack are read; a stack without any is an error
MontageZValues ==
    /\ mtg.pc = "z_values"
    /\ \E o \in GetZValues(mstacks, mtg.stack) :
        mtg' = IF o.res # "ok" THEN MontageRaised(mtg, o.res)
               ELSE IF o.z_values = <<>> THEN MontageRaised(mtg, "RuntimeError")
               ELSE [mtg EXCEPT !.z_values = o.z_values,
                                !.output_stack = StitchedStack,
                                !.pc = IF mtg.clobber THEN "delete" ELSE "patch"]
    /\ UNCHANGED <<Session, mstacks, notmon>>

\* clobber: the output stack is deleted, a RenderError is passed over
MontageDelete ==
    /\ mtg.pc = "delete"
    /\ \E o \in DeleteStack(mstacks, mtg.output_stack) :
        /\ mstacks' = o.srv
        /\ mtg' = IF o.res \in {"ok", "RenderError"}
                  THEN [mtg EXCEPT !.pc = "patch"]
                  ELSE MontageRaised(mtg, o.res)
    /\ UNCHANGED <<Session, notmon>>

\* the connection dict is copied and requests.Session is replaced by a
\* session_wrapper that calls the constructor found and sets the auth
MontagePatch ==
    /\ mtg.pc = "patch"
    /\ mtg' = [mtg EXCEPT !.render = Connection(mtg.render),
                          !.old_func = Session,
                          !.pc = "solve"]
    /\ Session' = <<mtg.auth>> \o Session
    /\ UNCHANGED <<mstacks, notmon>>

\* BigFeta(input_data=fetaschema) and feta.run(): the output stack is written
\* and closed, or the solver raises
MontageSolve ==
    /\ mtg.pc = "solve"
    /\ \/ /\ mstacks' = [mstacks EXCEPT ![mtg.output_stack] =
                            [state |-> "COMPLETE", specs |-> mstacks[mtg.stack].specs]]
          /\ mtg' = [mtg EXCEPT !.pc = "undo"]
       \/ /\ mtg' = MontageRaised(mtg, "Exception")
          /\ UNCHANGED mstacks
    /\ UNCHANGED <<Session, notmon>>

\* the monkeypatch is undone and the name of the output stack returned
MontageUndo ==
    /\ mtg.pc = "undo"
    /\ Session' = mtg.old_func
    /\ mtg' = [mtg EXCEPT !.pc = "returned"]
    /\ UNCHANGED <<mstacks, notmon>>

NextMontage ==
    \/ \E clobber \in BOOLEAN : \E auth \in Auths : \E render \in RenderDicts :
        StartMontage(clobber, auth, render)
    \/ MontageZValues
    \/ MontageDelete
    \/ MontagePatch
    \/ MontageSolve
    \/ MontageUndo

SpecMontage == InitMontage /\ [][NextMontage]_vars

\* ------------------------------------------------------------------ claims
Held == {section.tiles[i] : i \in DOMAIN section.tiles}

\* a step of add_tile: it returns (the section stays open) or raises
AddTileStep == phase = "open" /\ phase' \in {"open", "raised"}

\* C1: the tiles a section holds have pairwise different acquisition times;
\* an add_tile of a tile whose acquisition time is already held raises the
\* "already has a spec" ValueError and leaves the number of tiles as it was
\* (so a call that raises anything else, or returns, had a time not yet held,
\* and the call that returns adds exactly that one tile).
C1_DuplicateTimeRejected ==
    [][AddTileStep =>
        /\ Cardinality(Keys(section')) = Len(section'.tiles)
        /\ (phase' = "raised" /\ rejected'.acquisitiontime \in Keys(section)) =>
              /\ err' = "ValueError: already has a spec"
              /\ Len(section'.tiles) = Len(section.tiles)
        /\ phase' = "open" =>
              /\ Len(section'.tiles) = Len(section.tiles) + 1
              /\ SubSeq(section'.tiles, 1, Len(section.tiles)) = section.tiles
              /\ section'.tiles[Len(section'.tiles)].acquisitiontime \notin Keys(section)]_vars

\* a tile whose acquisition time is held already was offered and refused
C1_Witness ==
    /\ phase = "raised"
    /\ err = "ValueError: already has a spec"
    /\ rejected.acquisitiontime \in Keys(section)
    /\ Len(section.tiles) >= 2

\* C2: every tile the section holds has the pixel size of the section, so
\* all of them have the same pixel size (a tile of another pixel size is
\* refused with a ValueError).
C2_OnePixelSize ==
    \A tile \in Held :
        /\ tile.spec.pixelsize = section.pixel_size
        /\ \A other \in Held : other.spec.pixelsize = tile.spec.pixelsize

\* decimal value of a sequence of digits
RECURSIVE DecValue(_)
DecValue(s) == IF s = <<>> THEN 0 ELSE 10 * DecValue(SubSeq(s, 1, Len(s) - 1)) + s[Len(s)]

RECURSIVE Pow10(_)
Pow10(w) == IF w = 0 THEN 1 ELSE 10 * Pow10(w - 1)

\* number of decimal digits of n >= 1
Digits(n) == CHOOSE w \in 1..9 : Pow10(w - 1) <= n /\ n < Pow10(w)

\* number of held tiles acquired after the tile
Newer(tile) == Cardinality({other \in Held : other.acquisitiontime > tile.acquisitiontime})

\* C3: in a sealed section of n tiles the tile with the k-th largest
\* acquisition time (k from 0) has the tile id k, zero padded to len(str(n))
\* digits, followed by the stack name and z; the indices are 0..n-1 and no
\* two tiles share a tile id.
C3_TileIds ==
    phase = "sealed" =>
        LET n == Len(section.tiles)
        IN  /\ \A tile \in Held :
                 /\ Len(tile.spec.tileId.seq) = Digits(n)
                 /\ \A d \in DOMAIN tile.spec.tileId.seq : tile.spec.tileId.seq[d] \in 0..9
                 /\ DecValue(tile.spec.tileId.seq) = Newer(tile)
                 /\ tile.spec.tileId.name = section.name
                 /\ tile.spec.tileId.z = section.zvalue
            /\ {DecValue(tile.spec.tileId.seq) : tile \in Held} = 0..(n - 1)
            /\ Cardinality({tile.spec.tileId : tile \in Held}) = n

\* a sealed section of ten or more tiles that were not added newest first
C3_Witness ==
    /\ phase = "sealed"
    /\ Len(section.tiles) >= 10
    /\ section.tiles[1].acquisitiontime < section.tiles[2].acquisitiontime
    /\ section.tiles[3].acquisitiontime < section.tiles[1].acquisitiontime

\* bounding box <<minX, minY, maxX, maxY>> of the image rectangle
\* [0, width] x [0, height] under the transform list of a spec
TransformedBox(spec) ==
    LET corners == Corners(spec.width, spec.height)
        moved == [c \in 1..4 |-> ApplyTforms(spec.tforms, corners[c])]
        xs == [c \in 1..4 |-> moved[c][1]]
        ys == [c \in 1..4 |-> moved[c][2]]
    IN  <<SeqMin(xs), SeqMin(ys), SeqMax(xs), SeqMax(ys)>>

\* C4: for every tile-spec of a sealed section, the transforms of the spec
\* applied to [0, width] x [0, height] give the bounding box stored on the
\* spec.
C4_TransformsGiveBox ==
    phase = "sealed" =>
        \A tile \in Held : TransformedBox(tile.spec) = tile.spec.bbox

\* element-wise minimum of min_pos over the held tiles
MinCorner ==
    <<SeqMin([i \in DOMAIN section.tiles |-> section.tiles[i].axes[1].min_pos]),
      SeqMin([i \in DOMAIN section.tiles |-> section.tiles[i].axes[2].min_pos])>>

\* C5: the top left corner of a section that holds tiles is the element-wise
\* minimum of min_pos over its tiles; after sealing every tile-spec has
\* minX >= 0 and minY >= 0, one has minX = 0 and one has minY = 0.
C5_TopleftIsOrigin ==
    /\ section.tiles # <<>> => section.topleft = MinCorner
    /\ phase = "sealed" =>
          /\ \A tile \in Held : tile.spec.bbox[1] >= 0 /\ tile.spec.bbox[2] >= 0
          /\ \E tile \in Held : tile.spec.bbox[1] = 0
          /\ \E tile \in Held : tile.spec.bbox[2] = 0

\* a sealed section whose corner comes from two tiles, added after the first
C5_Witness ==
    /\ phase = "sealed"
    /\ Len(section.tiles) >= 2
    /\ section.tiles[1].axes[1].min_pos > section.topleft[1]
    /\ \A tile \in Held : tile.spec.bbox[1] # 0 \/ tile.spec.bbox[2] # 0

\* the tile-specs the last add_section appended to the stack
Appended ==
    SubSeq(stack.tilespecs, Len(stack.tilespecs) - Len(section.tiles) + 1,
           Len(stack.tilespecs))

\* acquisition time of the tile a sealed spec belongs to
TimeOf(spec) == (CHOOSE tile \in Held : tile.spec = spec).acquisitiontime

\* C6 as stated: the tile-specs appended by sealing are in descending
\* acquisition time order, whatever the order in which the tiles were added.
C6_AppendedNewestFirst ==
    phase = "sealed" =>
        \A i, j \in DOMAIN Appended :
            i < j => TimeOf(Appended[i]) > TimeOf(Appended[j])

\* the tile id, z, bounding box and transform a tile gets in a sealed section
\* that holds the set of tiles S, computed from the set alone
SealedFields(tile, S) ==
    LET corner == <<SeqMin(Sorted({t.axes[1].min_pos : t \in S})),
                    SeqMin(Sorted({t.axes[2].min_pos : t \in S}))>>
        rank == Cardinality({t \in S : t.acquisitiontime > tile.acquisitiontime})
    IN  [index |-> rank,
         z |-> section.zvalue,
         bbox |-> <<tile.axes[1].min_pos - corner[1], tile.axes[2].min_pos - corner[2],
                    tile.axes[1].max_pos - corner[1], tile.axes[2].max_pos - corner[2]>>,
         shift |-> <<tile.axes[1].pixel_position - corner[1],
                     tile.axes[2].pixel_position - corner[2]>>]

FieldsOf(spec) ==
    [index |-> DecValue(spec.tileId.seq),
     z |-> spec.z,
     bbox |-> spec.bbox,
     shift |-> <<spec.tforms[1].B0, spec.tforms[1].B1>>]

\* C6 as amended: sealing appends the tile-specs in the order in which the
\* tiles were added to the section; the tile id, z, bounding box and
\* transform of each tile depend on the set of tiles only, the tile ids
\* being numbered in descending acquisition time order.
C6_AppendedInArrivalOrder ==
    phase = "sealed" =>
        /\ Len(Appended) = Len(section.tiles)
        /\ \A i \in DOMAIN section.tiles :
              /\ Appended[i] = section.tiles[i].spec
              /\ FieldsOf(Appended[i]) = SealedFields(section.tiles[i], Held)

\* a sealed section whose tiles were not added newest first
C6_Witness ==
    /\ phase = "sealed"
    /\ Len(section.tiles) >= 3
    /\ section.tiles[1].acquisitiontime < section.tiles[2].acquisitiontime
    /\ section.tiles[3].acquisitiontime < section.tiles[2].acquisitiontime

\* ---- uploads
IsUpload == run.kind = "uploader"

\* C7: of the requests of one call, by the uploader or by the stitcher, a
\* set_stack_state for a stack comes directly after the create_stack and the
\* import_tilespecs of that stack, both answered without error; after an
\* import_tilespecs that failed the call has raised and no request follows.
C7_CompleteAfterImport ==
    /\ \A i \in DOMAIN log :
        log[i].op = "set_state" =>
            /\ i >= 3
            /\ log[i - 2] = Request("create", log[i].name, "ok")
            /\ log[i - 1] = Request("import", log[i].name, "ok")
    /\ \A i \in DOMAIN log :
        (log[i].op = "import" /\ log[i].res # "ok") =>
            /\ i = Len(log)
            /\ run.pc = "raised"

\* both stacks of a list were set COMPLETE by one call of the uploader
C7_Witness ==
    /\ IsUpload /\ run.pc = "returned" /\ Len(run.stacks) = 2
    /\ \A k \in 1..2 :
        \E i \in DOMAIN log : log[i] = Request("set_state", run.stacks[k].name, "ok")

\* the stacks of the list whose name was on the server when the call began
Listed == {k \in DOMAIN run.stacks : run.stacks[k].name \in run.existing}

FirstListed == CHOOSE k \in Listed : \A other \in Listed : k <= other

\* C8 as stated: without clobber, a call whose list holds the name of an
\* existing stack sends no request that changes the server.
C8_NoRequestWhenExists ==
    (IsUpload /\ ~run.clobber /\ Listed # {}) => log = <<>>

\* C8: without clobber, a call whose list holds the name of an existing stack
\* never returns: it raises RuntimeError on reaching the first such stack of
\* the list and sends no request for that stack or a later one, and no
\* delete_stack at all.  The stacks before it are uploaded as usual, so no
\* request is sent only when the existing stack is the first of the list.
C8_FailsAtFirstExisting ==
    (IsUpload /\ ~run.clobber /\ Listed # {}) =>
        /\ run.pc # "returned"
        /\ run.idx <= FirstListed
        /\ run.idx = FirstListed =>
              /\ run.pc = "raised"
              /\ run.exc = "RuntimeError: already exists"
        /\ \A i \in DOMAIN log :
              /\ log[i].op # "delete"
              /\ \E k \in 1..(FirstListed - 1) : log[i].name = run.stacks[k].name
        /\ FirstListed = 1 => log = <<>>
        /\ (run.idx = 2 /\ FirstListed = 2) =>
              log = <<Request("create", run.stacks[1].name, "ok"),
                      Request("import", run.stacks[1].name, "ok"),
                      Request("set_state", run.stacks[1].name, "ok")>>

\* the second stack of the list exists: the call raised after the first one
\* was uploaded
C8_Witness ==
    /\ IsUpload /\ ~run.clobber
    /\ run.pc = "raised" /\ run.exc = "RuntimeError: already exists"
    /\ run.idx = 2
    /\ Len(log) = 3
    /\ srv[run.stacks[1].name].state = "COMPLETE"

\* C9: when a call of the uploader with clobber returns, each stack of the
\* list is COMPLETE on the server and holds the tile-specs of this call and
\* no other; for a name that existed the delete_stack was answered before
\* the create_stack was sent.
C9_ClobberLeavesThisRun ==
    (IsUpload /\ run.clobber /\ run.pc = "returned") =>
        \A k \in DOMAIN run.stacks :
            LET name == run.stacks[k].name
            IN  /\ srv[name].state = "COMPLETE"
                /\ srv[name].specs = run.stacks[k].tilespecs
                /\ name \in run.existing =>
                      \E i \in DOMAIN log :
                          /\ log[i] = Request("delete", name, "ok")
                          /\ log[i + 1] = Request("create", name, "ok")

\* the second call replaced a stack that held tile-specs of an earlier one
C9_Witness ==
    /\ IsUpload /\ run.clobber /\ run.pc = "returned" /\ run.n = 2
    /\ \E k \in DOMAIN run.stacks :
        /\ run.stacks[k].name \in run.existing
        /\ Cardinality(run.stacks[k].tilespecs) = 1

\* C10: a call of the uploader that stops after the create_stack of a stack
\* and before its set_stack_state leaves that stack LOADING; when the next
\* call, with clobber and the same stacks, returns, each of these stacks is
\* COMPLETE and holds the tile-specs of the new call only.
C10_ClobberRecovers ==
    /\ (IsUpload /\ Stop(run).name # "") =>
            srv[Stop(run).name].state = "LOADING"
    /\ (/\ IsUpload /\ run.clobber /\ run.pc = "returned"
        /\ run.prev.name # "" /\ run.prev.names = Names(run.stacks)) =>
            \A k \in DOMAIN run.stacks :
                /\ srv[run.stacks[k].name].state = "COMPLETE"
                /\ srv[run.stacks[k].name].specs = run.stacks[k].tilespecs

\* the call before stopped with more tile-specs imported than this call sent
C10_Witness ==
    /\ IsUpload /\ run.clobber /\ run.pc = "returned"
    /\ run.prev.name # "" /\ run.prev.names = Names(run.stacks)
    /\ run.prev.name \in run.existing
    /\ Cardinality(Current([run EXCEPT !.idx = 1]).tilespecs) < MaxSpecs

\* ---- driver
DriverEnded == drv.pc \in {"raised", "returned"}

\* C11: from the finally clause on, cancel has been called on exactly the
\* futures left in the set futures and none of them still waits to run; a
\* result() that raises is the exception of the call; and when a task has
\* raised, create_all_mipmaps ends only by raising, after the shutdown of the
\* executor, with no section sealed, no tile id set and no stack returned.
C11_TaskFailureCancels ==
    /\ drv.pc \in {"shutdown", "raised", "returned"} =>
            /\ drv.cancelled = futures
            /\ \A t \in futures : tasks[t].state # "pending"
    /\ DriverEnded => drv.shutdown /\ InState("running") = {}
    /\ \A t \in DOMAIN tasks :
            (tasks[t].state = "failed" /\ t \notin futures) =>
                drv.exc = "TaskError" /\ drv.pc \in {"finally", "shutdown", "raised"}
    /\ (DriverEnded /\ InState("failed") # {}) =>
            /\ drv.pc = "raised"
            /\ drv.exc # ""
            /\ drv.sealed = 0
            /\ drv.all_stacks = <<>>
            /\ \A e \in {drv.all_sections[k] : k \in DOMAIN drv.all_sections} :
                 \A j \in DOMAIN e.sections :
                    \A i \in DOMAIN e.sections[j].tiles :
                        e.sections[j].tiles[i].spec.tileId = <<>>

\* a task raised after the tiles of another were collected, and a task
\* that had not started was cancelled
C11_Witness ==
    /\ drv.pc = "raised" /\ drv.exc = "TaskError"
    /\ drv.all_sections # <<>>
    /\ InState("cancelled") # {}
    /\ InState("cancelled") \subseteq drv.cancelled

\* ---- get_match_tiles
BoundsSet == {tilebounds[i] : i \in DOMAIN tilebounds}

Accepted == matched # NoResult /\ matched.err = ""

\* q begins where p ends to the right / below
RightOf(p, q) == q.min_x = p.max_x /\ q.min_y = p.min_y
Below(p, q) == q.min_x = p.min_x /\ q.min_y = p.max_y

HorizontalPairs ==
    {[p |-> pq[1].tile_id, q |-> pq[2].tile_id, x |-> pq[1].max_x, y |-> pq[1].min_y,
      z |-> pq[1].z] : pq \in {pq \in BoundsSet \X BoundsSet : RightOf(pq[1], pq[2])}}

VerticalPairs ==
    {[p |-> pq[1].tile_id, q |-> pq[2].tile_id, x |-> pq[1].min_x, y |-> pq[1].max_y,
      z |-> pq[1].z] : pq \in {pq \in BoundsSet \X BoundsSet : Below(pq[1], pq[2])}}

\* C14: for an accepted z-level the horizontal matches are, each once, the
\* pairs (p, q) with q beginning at (p.max_x, p.min_y), listed with that
\* corner, and the vertical matches are, each once, the pairs with q
\* beginning at (p.min_x, p.max_y), listed with that corner.
C14_PairsAreNeighbours ==
    Accepted =>
        /\ {matched.x_matches[i] : i \in DOMAIN matched.x_matches} = HorizontalPairs
        /\ Len(matched.x_matches) = Cardinality(HorizontalPairs)
        /\ {matched.y_matches[i] : i \in DOMAIN matched.y_matches} = VerticalPairs
        /\ Len(matched.y_matches) = Cardinality(VerticalPairs)

\* an accepted section with a hole: some tile has a neighbour in one
\* direction only
C14_Witness ==
    /\ Accepted
    /\ Len(matched.x_matches) >= 2 /\ Len(matched.y_matches) >= 2
    /\ Len(matched.x_matches) # Len(matched.y_matches)
    /\ \E p \in BoundsSet :
        /\ \E q \in BoundsSet : RightOf(p, q)
        /\ ~\E q \in BoundsSet : Below(p, q)

\* the numbers of the claim, from the tiles
NoRight == Cardinality({p \in BoundsSet : ~\E q \in BoundsSet : RightOf(p, q)})
NoBelow == Cardinality({p \in BoundsSet : ~\E q \in BoundsSet : Below(p, q)})
Columns == {p.min_x : p \in BoundsSet}
ColumnHeights == {Cardinality({p \in BoundsSet : p.min_x = x}) : x \in Columns}
Tallest == CHOOSE m \in ColumnHeights : \A h \in ColumnHeights : h <= m

AllSquare ==
    \A p \in BoundsSet :
        /\ p.max_x - p.min_x = tilebounds[1].max_x - tilebounds[1].min_x
        /\ p.max_y - p.min_y = tilebounds[1].max_x - tilebounds[1].min_x

\* C15 as stated, for square tiles of one size with a pair in each
\* direction: a z-level is accepted exactly when x_unmatched <= ylen and
\* y_unmatched <= xlen.
C15_AcceptedUpToLen ==
    (/\ matched # NoResult /\ tilebounds # <<>> /\ AllSquare
     /\ HorizontalPairs # {} /\ VerticalPairs # {}) =>
        (matched.err = "" <=> (NoRight <= Tallest /\ NoBelow <= Cardinality(Columns)))

\* C15: the counts are the ones the claim names; a z-level is accepted
\* exactly when all tiles are squares of the size of the first, a horizontal
\* and a vertical pair exist, x_unmatched >= ylen and y_unmatched >= xlen.
\* More unmatched tiles than ylen or xlen are accepted, and among square
\* tiles of one size fewer do not occur.
C15_AcceptedFromLen ==
    (matched # NoResult /\ tilebounds # <<>>) =>
        /\ matched.counts.x_unmatched = NoRight
        /\ matched.counts.y_unmatched = NoBelow
        /\ matched.counts.ylen = Tallest
        /\ matched.counts.xlen = Cardinality(Columns)
        /\ matched.err = "" <=>
                /\ AllSquare
                /\ HorizontalPairs # {} /\ VerticalPairs # {}
                /\ NoRight >= Tallest /\ NoBelow >= Cardinality(Columns)
        /\ AllSquare => (NoRight >= Tallest /\ NoBelow >= Cardinality(Columns))

\* an accepted section that is not a rectangle: more tiles without a right
\* neighbour than the tallest column has tiles
C15_Witness ==
    /\ Accepted
    /\ NoRight > Tallest
    /\ NoBelow = Cardinality(Columns)

\* ---- get_all_matches
\* C12 as stated: a match task that had not started when a task raised is
\* cancelled: it is never started.
C12_UnstartedCancelled ==
    \A t \in st.unstarted : t > Len(mtasks) \/ mtasks[t].state = "queued"

Downloading == {t \in DOMAIN mtasks : mtasks[t].state = "download"}

\* C13: at most one match task is inside get_bb_image, it is the holder of
\* image_limit, and the lock is held only while a call is in flight: it is
\* free again once the call has returned or raised.
C13_OneImageCall ==
    /\ Cardinality(Downloading) <= 1
    /\ \A t \in Downloading : lock = t
    /\ lock # 0 => lock \in Downloading
    /\ (\A t \in DOMAIN mtasks : Finished(t)) => lock = 0

\* one task is inside get_bb_image, a second one waits for the lock, and
\* an earlier call has raised
C13_Witness ==
    /\ Cardinality(Downloading) = 1
    /\ \E t \in DOMAIN mtasks : mtasks[t].state = "running"
    /\ \E t \in DOMAIN mtasks : mtasks[t].state = "failed"

\* ---- filter_tilespecs
Filtered == st.pc = "filtered"

\* the accepted tilepairs of a z-level and the tiles they join
AcceptedPairs(z) ==
    {mtasks[t].matcher.pair : t \in {u \in DOMAIN mtasks :
        mtasks[u].result = "match" /\ mtasks[u].matcher.pair.z = z}}

Joined(z) == UNION {{pair.p, pair.q} : pair \in AcceptedPairs(z)}

\* the tiles reachable from a set of tiles over accepted pairs
RECURSIVE Reachable(_, _)
Reachable(z, tiles) ==
    LET more == tiles \cup
                {pair.q : pair \in {e \in AcceptedPairs(z) : e.p \in tiles}} \cup
                {pair.p : pair \in {e \in AcceptedPairs(z) : e.q \in tiles}}
    IN  IF more = tiles THEN tiles ELSE Reachable(z, more)

\* the tiles of good_tilespecs at a z-level
Output(z) == {spec.tileId : spec \in {g \in st.good_tilespecs : g.z = z}}

AllZ == {st.pairs[i].pair.z : i \in DOMAIN st.pairs}

\* C16: when filter_tilespecs has returned, the tile-specs of a z-level with
\* an accepted pair are the tiles reachable from one tile over accepted
\* pairs, no tile of that z-level reaches more tiles, and every tile of the
\* output is in an accepted pair; a z-level with no accepted pair gives none.
C16_LargestComponent ==
    Filtered =>
        \A z \in AllZ :
            IF AcceptedPairs(z) = {} THEN Output(z) = {}
            ELSE /\ Output(z) # {}
                 /\ Output(z) \subseteq Joined(z)
                 /\ \A tile \in Output(z) : Reachable(z, {tile}) = Output(z)
                 /\ \A tile \in Joined(z) :
                        Cardinality(Reachable(z, {tile})) <= Cardinality(Output(z))

\* a z-level with a group of three tiles and a group of two, of which the
\* smaller was collected first
C16_Witness ==
    /\ Filtered
    /\ Cardinality(Output(0)) = 3
    /\ Cardinality(Joined(0)) = 5
    /\ DictGet(st.z_all_matches, 0)[1].pId \notin Output(0)

\* the matches and connections when the results are collected in the order
\* the tasks were submitted
RECURSIVE InSubmitOrder(_, _)
InSubmitOrder(s, t) ==
    IF t > Len(mtasks) THEN s
    ELSE InSubmitOrder(IF mtasks[t].result = "match"
                       THEN CollectResult(s, mtasks[t].matcher) ELSE s, t + 1)

IdsOf(matches) == {<<matches[i].pId, matches[i].qId, matches[i].z>> : i \in DOMAIN matches}

\* C17 as stated: the tile-specs and the (pId, qId) pairs filter_tilespecs
\* returns are those it returns when the same results are collected in the
\* order of submission, whatever the order they were collected in.
C17_SameForEveryOrder ==
    Filtered =>
        LET s == InSubmitOrder(IdleStitcher, 1)
            r == FilterLevels(ZValuesOf(st.pairs), s.z_all_matches, s.z_connections)
        IN  /\ st.good_tilespecs = r.good_tilespecs
            /\ IdsOf(st.matches_to_send) = IdsOf(r.matches_to_send)


\* what the matching stack and the collection hold of earlier uploads
EarlierSpecs == {s \in srv[MatchingStack].specs : s.run < run.n}
EarlierMatches == {m \in colls[MatchesName].matches : m < run.n}

\* C18: a Stitcher.upload_to_render with clobber=false that finds tile-specs
\* in the matching stack or matches in the collection from an earlier upload
\* does not return, and neither the stack nor the collection holds anything
\* of this upload
C18_ExistingLeftAlone ==
    (/\ run.kind = "stitcher" /\ ~run.clobber
     /\ (EarlierSpecs # {} \/ EarlierMatches # {}))
    => /\ run.pc # "returned"
       /\ srv[MatchingStack].specs = EarlierSpecs
       /\ colls[MatchesName].matches = EarlierMatches


\* ---- post-corrector
\* the section was returned as failed by post_correct_section
ReturnedFailed(s) ==
    \/ calls[s].state \in {"failed", "failed_corrected"}
    \/ calls[s].state = "raised" /\ calls[s].exc = "UnboundLocalError"

\* C19: a section that had its post_correct_section call was returned as
\* failed exactly when fewer than MIN_CLEAN of its images are clean
C19_FailedBelowMinClean ==
    \A s \in 1..MaxSections :
        calls[s].state # "none"
        => (ReturnedFailed(s)
            <=> Len(CleanImages(project[s].files, Med, Mad)) < MIN_CLEAN)

\* the nearest value of the 16-bit range
Clamped(x) == IF x < 0 THEN 0 ELSE IF x >= UInt16 THEN UInt16 - 1 ELSE x

\* C20: every pixel written by post_correct or post_correct_failed_section
\* is the raw pixel minus the background plus RESTORE_MEAN_LEVEL, clamped
\* to 0..65535
C20_PixelsClamped ==
    \A s \in 1..MaxSections :
        calls[s].state \in {"corrected", "failed_corrected"}
        => \A i \in 1..Len(project[s].files) :
            project[s].written[i]
                = Clamped(Trunc(Restored(project[s].files[i], calls[s].background)))


\* ---- fallback pass
\* the place of section d in the order i-1, i+1, i-2, i+2, ... around s
Rank(s, d) == IF d < s THEN 2 * (s - d) - 1 ELSE 2 * (d - s)

\* the other sections that have a sum_of_files.tiff
Having(s) == {d \in DOMAIN project \ {s} : project[d].sum_of_files # None}

\* the first of them in that order
Nearest(s) == CHOOSE d \in Having(s) : \A e \in Having(s) : Rank(s, d) <= Rank(s, e)

\* C21: post_correct_failed_section takes as background the sum_of_files.tiff
\* of the first section in the order i-1, i+1, i-2, i+2, ... that has one,
\* and finds one whenever another section has one
C21_NearestBackground ==
    [][\A s \in DOMAIN project :
        (calls[s].state = "failed" /\ calls'[s].state # "failed")
        => IF Having(s) = {}
           THEN calls'[s].state = "raised"
           ELSE /\ calls'[s].state = "failed_corrected"
                /\ calls'[s].background = Rat(project[Nearest(s)].sum_of_files, 1)
                /\ project'[s].sum_of_files = project[Nearest(s)].sum_of_files]_vars

\* a section was corrected with the background of the section above it,
\* nearer than a section below that has another one
C21_Witness ==
    \E s \in DOMAIN project :
        /\ calls[s].state = "failed_corrected"
        /\ s - 2 >= 1 /\ s + 1 <= Len(project)
        /\ project[s - 1].sum_of_files = None
        /\ project[s - 2].sum_of_files # None
        /\ project[s + 1].sum_of_files # None
        /\ project[s - 2].sum_of_files # project[s + 1].sum_of_files
        /\ project[s].sum_of_files = project[s + 1].sum_of_files


\* post_correct_failed_section was called for the section
FallbackCalled(s) == calls[s].state \in {"failed_corrected", "raised"}

\* C22: a fallback call for a section when no other section has a
\* sum_of_files.tiff raises nothing and writes neither a corrected image
\* nor a sum_of_files.tiff
C22_NoBackgroundNotFatal ==
    \A s \in DOMAIN project :
        (FallbackCalled(s) /\ Having(s) = {})
        => /\ calls[s].exc = ""
           /\ project[s].written = <<>>
           /\ project[s].sum_of_files = None


\* ---- post_correct_all_sections
\* the elements of a list
Elements(seq) == {seq[i] : i \in DOMAIN seq}

\* C23: post_correct_all_sections of a Post_Corrector built with a list of
\* section directories returns, having sampled every section and run
\* post_correct_section for every section, which is corrected or among the
\* returned failed sections
C23_EverySectionOnce ==
    (pdrv.project_paths = "list" /\ pdrv.pc \in {"returned", "raised"})
    => /\ pdrv.pc = "returned"
       /\ \A d \in DOMAIN project :
            /\ d \in Elements(pdrv.sampled)
            /\ calls[d].state \in {"corrected", "failed"}
            /\ calls[d].state = "failed" <=> d \in Elements(pdrv.failed_sections)


\* ---- CATMAID exporter
\* ceil(log2(max(width, height) / 1024)) of stack i
LevelOf(i) ==
    CeilLog2(Max2(exporter.stacks[i].maxX - exporter.stacks[i].minX,
                  exporter.stacks[i].maxY - exporter.stacks[i].minY), w_tile)

\* C24: set_export_parameters returns parameters for every requested stack,
\* each with the largest level of all requested stacks
C24_ParametersForEveryStack ==
    exporter.pc \in {"boxes", "rendered", "raised"}
    => \A i \in DOMAIN exporter.stacks :
        /\ ParamsOf(exporter.export_data, i) # <<>>
        /\ \A j \in DOMAIN exporter.stacks :
            ParamsOf(exporter.export_data, i).max_level >= LevelOf(j)
        /\ \E j \in DOMAIN exporter.stacks :
            ParamsOf(exporter.export_data, i).max_level = LevelOf(j)


\* ---- returned stacks
\* C25: in every returned Stack the tile-specs of a lower z come before
\* those of a higher z
C25_AscendingZ ==
    drv.pc = "returned"
    => \A k \in DOMAIN drv.all_stacks :
        \A i, j \in DOMAIN drv.all_stacks[k].tilespecs :
            i < j => drv.all_stacks[k].tilespecs[i].z <= drv.all_stacks[k].tilespecs[j].z

\* the tiles the tasks returned for the stack name at zvalue
TilesOf(name, zvalue) ==
    {t \in DOMAIN tasks : /\ tasks[t].tiles[1].stackname = name
                          /\ tasks[t].tiles[1].zvalue = zvalue}

\* the places of the tile-specs with that z in the returned stack k
SpecsAt(k, zvalue) ==
    {i \in DOMAIN drv.all_stacks[k].tilespecs :
        drv.all_stacks[k].tilespecs[i].z = zvalue}

\* C26: after create_all_mipmaps returned there is one Stack per stack name
\* of the tiles, the stack of a name holds for every z as many tile-specs as
\* tasks returned tiles for it, no two of them with the same tile id, and
\* no Section is sealed while a task waits, runs or is not collected
C26_EveryTileOnce ==
    /\ drv.sealed > 0
        => futures = {} /\ \A t \in DOMAIN tasks : tasks[t].state = "done"
    /\ drv.pc = "returned"
        => /\ \A k, l \in DOMAIN drv.all_stacks :
                drv.all_stacks[k].name = drv.all_stacks[l].name => k = l
           /\ \A t \in DOMAIN tasks : \E k \in DOMAIN drv.all_stacks :
                drv.all_stacks[k].name = tasks[t].tiles[1].stackname
           /\ \A k \in DOMAIN drv.all_stacks : \A zvalue \in ZValues :
                /\ Cardinality(SpecsAt(k, zvalue))
                    = Cardinality(TilesOf(drv.all_stacks[k].name, zvalue))
                /\ \A i, j \in SpecsAt(k, zvalue) :
                    drv.all_stacks[k].tilespecs[i].tileId
                        = drv.all_stacks[k].tilespecs[j].tileId => i = j
           /\ \A k \in DOMAIN drv.all_stacks : \A i \in DOMAIN drv.all_stacks[k].tilespecs :
                drv.all_stacks[k].tilespecs[i].z \in ZValues

\* two stacks were returned, one of them with the tiles of two tasks
C26_Witness ==
    /\ drv.pc = "returned"
    /\ Len(drv.all_stacks) = 2
    /\ \E k \in DOMAIN drv.all_stacks : Len(drv.all_stacks[k].tilespecs) = 2


\* ---- returned matches
\* the matches filter_tilespecs returned, as <<pId, qId, z>>
Sent == IdsOf(st.matches_to_send)

\* C27: every match filter_tilespecs returns joins two tiles of the returned
\* tile-specs of its z, and every accepted pair of two returned tiles is
\* among the returned matches
C27_MatchesOfSurvivors ==
    Filtered =>
        /\ \A m \in Sent : m[1] \in Output(m[3]) /\ m[2] \in Output(m[3])
        /\ \A z \in AllZ : \A pair \in AcceptedPairs(z) :
            (pair.p \in Output(z) /\ pair.q \in Output(z))
            => <<pair.p, pair.q, z>> \in Sent

\* matches were returned for a z-level where an accepted pair was dropped
C27_Witness ==
    /\ Filtered
    /\ \E m \in Sent : \E pair \in AcceptedPairs(m[3]) :
        pair.p \notin Output(m[3]) /\ <<pair.p, pair.q, m[3]>> \notin Sent


\* ---- clobber
\* the last request of the call was a delete that the server refused for an
\* object that exists
DeleteRefused ==
    /\ log # <<>>
    /\ log[Len(log)].res = "RenderError"
    /\ \/ log[Len(log)].op = "delete" /\ srv[MatchingStack].state # "ABSENT"
       \/ log[Len(log)].op = "delete_collection" /\ colls[MatchesName].exists

\* C28: when the server refuses to delete the matching stack or the
\* collection although it exists, Stitcher.upload_to_render raises and
\* sends no further request
C28_DeleteErrorStops ==
    (run.kind = "stitcher" /\ run.clobber /\ DeleteRefused)
    => run.pc \in {"raised", "crashed"} /\ run.at \notin {"s_create", "m_import"}


\* ---- a rejected tile
\* C29: an add_tile that raises ValueError leaves the tiles, the top-left
\* corner, the intensity range and the pixel_size of the section as they
\* were, and the spec of the rejected tile has no z value written
C29_RejectedLeavesSection ==
    [][(phase = "open" /\ phase' = "raised") =>
        /\ err' \in {"ValueError: already has a spec", "ValueError: wrong pixel_size"}
        /\ section'.tiles = section.tiles
        /\ section'.topleft = section.topleft
        /\ section'.range = section.range
        /\ section'.pixel_size = section.pixel_size
        /\ rejected'.spec.z = None]_vars

\* a tile of another pixel size was refused by a section that holds tiles
C29_Witness ==
    /\ phase = "raised"
    /\ err = "ValueError: wrong pixel_size"
    /\ section.tiles # <<>>
    /\ rejected.spec.pixelsize # section.pixel_size
    /\ rejected.acquisitiontime \notin Keys(section)


\* ---- the authentication patch
\* C30: when a montage call has ended, by returning or by raising,
\* requests.Session is the constructor that was installed when it was called
C30_PatchUndone ==
    mtg.pc \in {"returned", "raised"} => Session = mtg.before

====
